---- MODULE Spec2Model ----
(***************************************************************************)
(* Intel 8155/8156 RAM-I/O-Timer (src/devices/machine/i8155.cpp).          *)
(*                                                                         *)
(* The device is modelled as a record of its member variables; every       *)
(* member function is an operator from device records to device records,   *)
(* and every entry point (bus access, reset, scheduler callback, clock     *)
(* tick) is an action.  Time is counted in device clock ticks.  An         *)
(* emu_timer is its remaining time in ticks, or Never when not scheduled.  *)
(***************************************************************************)
EXTENDS Integers, Sequences, FiniteSets, TLC

\* ------------------------------------------------------------------------
\* Constants of the source
\* ------------------------------------------------------------------------
REGISTER_COMMAND == 0
REGISTER_STATUS == 0
REGISTER_PORT_A == 1
REGISTER_PORT_B == 2
REGISTER_PORT_C == 3
REGISTER_TIMER_LOW == 4
REGISTER_TIMER_HIGH == 5

PORT_A == 0
PORT_B == 1
PORT_C == 2

PORT_MODE_INPUT == 0
PORT_MODE_OUTPUT == 1
PORT_MODE_STROBED_PORT_A == 2
PORT_MODE_STROBED == 3

MEMORY == 0
IO == 1

COMMAND_PA == 1
COMMAND_PB == 2
COMMAND_PC_MASK == 12
COMMAND_PC_ALT_1 == 0
COMMAND_PC_ALT_2 == 12
COMMAND_PC_ALT_3 == 4
COMMAND_PC_ALT_4 == 8
COMMAND_TM_MASK == 192
COMMAND_TM_NOP == 0
COMMAND_TM_STOP == 64
COMMAND_TM_STOP_AFTER_TC == 128
COMMAND_TM_START == 192

STATUS_TIMER == 64

TIMER_MODE_MASK == 192
TIMER_MODE_AUTO_RELOAD == 64
TIMER_MODE_TC_PULSE == 128

\* attotime::never: the emu_timer is not scheduled
Never == -1

\* the largest count length: 14 bits
MaxCount == 16383

\* ------------------------------------------------------------------------
\* Bounds of the model
\* ------------------------------------------------------------------------
\* largest count length (low byte of the count length register) programmed
MaxLen == 4

\* ------------------------------------------------------------------------
\* Integer arithmetic of the source (uint8_t / uint16_t, bitwise operators)
\* ------------------------------------------------------------------------
\* a & b on 4-bit values, tabulated from the bits
AndNibble ==
    [a \in 0 .. 15 |-> [b \in 0 .. 15 |->
        ((a % 2) * (b % 2))
        + 2 * (((a \div 2) % 2) * ((b \div 2) % 2))
        + 4 * (((a \div 4) % 2) * ((b \div 4) % 2))
        + 8 * ((a \div 8) * (b \div 8))]]

\* a & b on values of up to 16 bits
And(a, b) ==
    AndNibble[a % 16][b % 16]
    + 16 * AndNibble[(a \div 16) % 16][(b \div 16) % 16]
    + 256 * AndNibble[(a \div 256) % 16][(b \div 256) % 16]
    + 4096 * AndNibble[(a \div 4096) % 16][(b \div 4096) % 16]

Or(a, b) == a + b - And(a, b)

\* x & ~m on an 8-bit value
AndNot(a, m) == a - And(a, m)

Min(a, b) == IF a < b THEN a ELSE b
Max(a, b) == IF a > b THEN a ELSE b

\* ------------------------------------------------------------------------
\* State: the members of i8155_device, the two emu_timers, and what an
\* observer of the pins and of the bus sees
\* ------------------------------------------------------------------------
VARIABLES
    m_io_m,              \* I/O / memory select latched by ale_w
    m_ad,                \* address latched by ale_w
    m_command,           \* command register
    m_status,            \* status register
    m_output,            \* output latches of ports A, B, C (index port + 1)
    m_ram,               \* RAM bytes that differ from their cleared value
    m_count_length,      \* programmed count length and mode
    m_count_loaded,      \* count length and mode of the running count
    m_to,                \* level of the TO pin
    m_count_even_phase,  \* second half of the count
    m_timer,             \* half-period emu_timer: ticks remaining, or Never
    m_timer_tc,          \* terminal-count emu_timer: ticks remaining, or Never
    powered,             \* device_reset has run at least once (machine start)
    cb,                  \* callbacks invoked by the last operation, in order
    ret,                 \* value returned by the last read (-1: none)
    op,                  \* the last operation; of a command write, whether the
                         \* timer ran before it and whether it repeats the byte
    clk,                 \* ticks since the last Start that began a count, or -1
    lows,                \* falling edges of TO since that Start
    tcs,                 \* terminal counts (even half elapsed) since that Start
    statusRead,          \* a clearing status read happened since that Start
    startDeferred,       \* the last command write was a Start while running
    arg,                 \* offset and data of the last bus access (a read: what
                         \* the port's input callback has to offer)
    written              \* the byte last written to each RAM address

devVars == <<m_io_m, m_ad, m_command, m_status, m_output, m_ram, m_count_length,
             m_count_loaded, m_to, m_count_even_phase, m_timer, m_timer_tc>>
obsVars == <<powered, cb, ret, op, clk, lows, tcs, statusRead, startDeferred,
             arg, written>>
vars == <<devVars, obsVars>>

\* the device as a record, the argument and result of the member functions.
\* `part` is 0 when the operation happens exactly on a clock edge and 1 when
\* part of a clock tick has passed since the last edge; attotime_to_clocks
\* rounds the remaining time of an emu_timer down to whole ticks.
DevAt(part) ==
    [io_m |-> m_io_m, ad |-> m_ad, command |-> m_command, status |-> m_status,
     output |-> m_output, ram |-> m_ram, count_length |-> m_count_length,
     count_loaded |-> m_count_loaded, to |-> m_to,
     count_even_phase |-> m_count_even_phase, timer |-> m_timer,
     timer_tc |-> m_timer_tc, cb |-> <<>>, part |-> part]

Dev == DevAt(0)

\* attotime_to_clocks(m_timer->remaining())
remaining_clocks(s) == s.timer - s.part

\* m_timer->running()
running(t) == t # Never

\* ------------------------------------------------------------------------
\* Inline helpers
\* ------------------------------------------------------------------------
get_timer_mode(s) == And(s.count_loaded \div 256, TIMER_MODE_MASK)

\* mutant of get_timer_count: the remaining time is not clamped to the count
get_timer_count_unclamped(s) ==
    IF running(s.timer)
    THEN Or(((remaining_clocks(s) % 65536) + 1) * 2,
            IF s.count_even_phase THEN 0 ELSE 1)
    ELSE s.count_length

\* mutant of get_timer_count: the ticks remaining are doubled as they are
get_timer_count_no_round(s) ==
    IF running(s.timer)
    THEN Or(Min((remaining_clocks(s) % 65536) * 2, And(s.count_loaded, 16382)),
            IF s.count_even_phase THEN 0 ELSE 1)
    ELSE s.count_length

get_timer_count(s) ==
    IF running(s.timer)
    THEN Or(Min(((remaining_clocks(s) % 65536) + 1) * 2, And(s.count_loaded, 16382)),
            IF s.count_even_phase THEN 0 ELSE 1)
    ELSE s.count_length

\* mutant of timer_output: the callback is invoked without comparing levels
timer_output_always(s, to) ==
    [s EXCEPT !.to = to, !.cb = Append(@, <<"to", to>>)]

\* mutant of timer_output: the level driven is not remembered
timer_output_no_latch(s, to) ==
    IF to = s.to THEN s
    ELSE [s EXCEPT !.cb = Append(@, <<"to", to>>)]

timer_output(s, to) ==
    IF to = s.to THEN s
    ELSE [s EXCEPT !.to = to, !.cb = Append(@, <<"to", to>>)]

\* mutant of timer_stop_count: the live count is not saved
timer_stop_count_nosnapshot(s) ==
    timer_output([s EXCEPT !.timer = Never, !.timer_tc = Never], 1)

\* mutant of timer_stop_count: the terminal-count timer is left scheduled
timer_stop_count_keep_tc(s) ==
    LET s1 == IF running(s.timer)
              THEN [s EXCEPT !.count_loaded =
                                 Or(And(s.count_loaded, TIMER_MODE_MASK * 256),
                                    get_timer_count(s)),
                             !.timer = Never]
              ELSE s
    IN  timer_output(s1, 1)

timer_stop_count(s) ==
    LET s1 == IF running(s.timer)
              THEN [s EXCEPT !.count_loaded =
                                 Or(And(s.count_loaded, TIMER_MODE_MASK * 256),
                                    get_timer_count(s)),
                             !.timer = Never]
              ELSE s
        s2 == [s1 EXCEPT !.timer_tc = Never]
    IN  timer_output(s2, 1)

\* mutant of timer_reload_count: no extra cycle for an odd count
timer_reload_count_even(s) ==
    LET s1 == [s EXCEPT !.count_loaded = s.count_length]
    IN  IF And(s.count_length, 16383) < 2
        THEN timer_stop_count(s1)
        ELSE timer_output(
                 [s1 EXCEPT !.count_even_phase = FALSE,
                            !.timer = And(s.count_length, 16382) \div 2],
                 1)

\* mutant of timer_reload_count: a count of 1 is taken as valid
timer_reload_count_from1(s) ==
    LET s1 == [s EXCEPT !.count_loaded = s.count_length]
    IN  IF And(s.count_length, 16383) < 1
        THEN timer_stop_count(s1)
        ELSE timer_output(
                 [s1 EXCEPT !.count_even_phase = FALSE,
                            !.timer = (And(s.count_length, 16382) \div 2)
                                      + And(s.count_length, 1)],
                 1)

\* mutant of timer_reload_count: a loaded TC_PULSE mode bit is kept
timer_reload_count_keep(s) ==
    LET s1 == [s EXCEPT !.count_loaded =
                            Or(s.count_length,
                               And(s.count_loaded, TIMER_MODE_TC_PULSE * 256))]
    IN  IF And(s.count_length, 16383) < 2
        THEN timer_stop_count(s1)
        ELSE timer_output(
                 [s1 EXCEPT !.count_even_phase = FALSE,
                            !.timer = (And(s.count_length, 16382) \div 2)
                                      + And(s.count_length, 1)],
                 1)

\* mutant of timer_reload_count: the length is not checked
timer_reload_count_no_check(s) ==
    timer_output(
        [s EXCEPT !.count_loaded = s.count_length,
                  !.count_even_phase = FALSE,
                  !.timer = (And(s.count_length, 16382) \div 2)
                            + And(s.count_length, 1)],
        1)

timer_reload_count(s) ==
    LET s1 == [s EXCEPT !.count_loaded = s.count_length]
    IN  IF And(s.count_length, 16383) < 2
        THEN timer_stop_count(s1)
        ELSE timer_output(
                 [s1 EXCEPT !.count_even_phase = FALSE,
                            !.timer = (And(s.count_length, 16382) \div 2)
                                      + And(s.count_length, 1)],
                 1)

get_port_mode(s, port) ==
    CASE port = PORT_A ->
            IF And(s.command, COMMAND_PA) # 0 THEN PORT_MODE_OUTPUT ELSE PORT_MODE_INPUT
      [] port = PORT_B ->
            IF And(s.command, COMMAND_PB) # 0 THEN PORT_MODE_OUTPUT ELSE PORT_MODE_INPUT
      [] port = PORT_C ->
            CASE And(s.command, COMMAND_PC_MASK) = COMMAND_PC_ALT_1 -> PORT_MODE_INPUT
              [] And(s.command, COMMAND_PC_MASK) = COMMAND_PC_ALT_2 -> PORT_MODE_OUTPUT
              [] And(s.command, COMMAND_PC_MASK) = COMMAND_PC_ALT_3 -> PORT_MODE_STROBED_PORT_A
              [] And(s.command, COMMAND_PC_MASK) = COMMAND_PC_ALT_4 -> PORT_MODE_STROBED
      [] OTHER -> -1

\* the name of a port's callbacks in the callback log
PortName(port) == IF port = PORT_A THEN "pa" ELSE IF port = PORT_B THEN "pb" ELSE "pc"

\* mutant of read_port: the pins are read in the strobed modes
read_port_strobed_pins(s, port, pin) ==
    CASE get_port_mode(s, port) = PORT_MODE_OUTPUT ->
            [dev |-> s, data |-> s.output[port + 1]]
      [] OTHER ->
            [dev |-> [s EXCEPT !.cb = Append(@, <<"in_" \o PortName(port), pin>>)],
             data |-> pin]

\* mutant of read_port: the pins are read in output mode too
read_port_pins(s, port, pin) ==
    CASE get_port_mode(s, port) \in {PORT_MODE_INPUT, PORT_MODE_OUTPUT} ->
            [dev |-> [s EXCEPT !.cb = Append(@, <<"in_" \o PortName(port), pin>>)],
             data |-> pin]
      [] OTHER -> [dev |-> s, data |-> 0]

\* read_port: `pin` is what the port's input callback returns if it is called
read_port(s, port, pin) ==
    CASE get_port_mode(s, port) = PORT_MODE_INPUT ->
            [dev |-> [s EXCEPT !.cb = Append(@, <<"in_" \o PortName(port), pin>>)],
             data |-> pin]
      [] get_port_mode(s, port) = PORT_MODE_OUTPUT ->
            [dev |-> s, data |-> s.output[port + 1]]
      [] OTHER -> [dev |-> s, data |-> 0]

\* mutant of write_port: a byte equal to the latch content is not propagated
write_port_on_change(s, port, data) ==
    LET s1 == [s EXCEPT !.output[port + 1] = data]
    IN  IF get_port_mode(s1, port) = PORT_MODE_OUTPUT /\ data # s.output[port + 1]
        THEN [s1 EXCEPT !.cb = Append(@, <<"out_" \o PortName(port), data>>)]
        ELSE s1

write_port(s, port, data) ==
    LET s1 == [s EXCEPT !.output[port + 1] = data]
    IN  IF get_port_mode(s1, port) = PORT_MODE_OUTPUT
        THEN [s1 EXCEPT !.cb = Append(@, <<"out_" \o PortName(port), data>>)]
        ELSE s1

\* ------------------------------------------------------------------------
\* Timer callbacks.  While timer_half_counted runs, the one-shot m_timer that
\* fired is either already disabled or still enabled with nothing remaining,
\* depending on the scheduler: the caller chooses s.timer in {Never, 0}.
\* ------------------------------------------------------------------------
\* mutant of timer_half_counted: the stop-after-TC command is not looked at
timer_half_counted_no_stop_after_tc(s) ==
    IF s.count_even_phase
    THEN LET s1 == timer_output(s, 1)
             s2 == [s1 EXCEPT !.count_even_phase = FALSE]
         IN  IF And(get_timer_mode(s2), TIMER_MODE_AUTO_RELOAD) = 0
             THEN timer_stop_count(s2)
             ELSE timer_reload_count(s2)
    ELSE LET s1 == [s EXCEPT !.timer = And(s.count_loaded, 16382) \div 2,
                             !.count_even_phase = TRUE]
         IN  IF And(get_timer_mode(s1), TIMER_MODE_TC_PULSE) = 0
             THEN timer_output(s1, 0)
             ELSE [s1 EXCEPT !.timer_tc =
                                 (Max(And(s1.count_loaded, 16382), 2) - 2) \div 2]

\* mutant of timer_half_counted: the loaded mode is not looked at, a count
\* stops at terminal count on the stop-after-TC command only
timer_half_counted_always_reload(s) ==
    IF s.count_even_phase
    THEN LET s1 == timer_output(s, 1)
             s2 == [s1 EXCEPT !.count_even_phase = FALSE]
         IN  IF And(s2.command, COMMAND_TM_MASK) = COMMAND_TM_STOP_AFTER_TC
             THEN timer_stop_count(s2)
             ELSE timer_reload_count(s2)
    ELSE LET s1 == [s EXCEPT !.timer = And(s.count_loaded, 16382) \div 2,
                             !.count_even_phase = TRUE]
         IN  IF And(get_timer_mode(s1), TIMER_MODE_TC_PULSE) = 0
             THEN timer_output(s1, 0)
             ELSE [s1 EXCEPT !.timer_tc =
                                 (Max(And(s1.count_loaded, 16382), 2) - 2) \div 2]

\* mutant of timer_half_counted: the even half gets the extra tick of an odd
\* count too
timer_half_counted_even_ceil(s) ==
    IF s.count_even_phase
    THEN LET s1 == timer_output(s, 1)
             s2 == [s1 EXCEPT !.count_even_phase = FALSE]
         IN  IF And(get_timer_mode(s2), TIMER_MODE_AUTO_RELOAD) = 0
                \/ And(s2.command, COMMAND_TM_MASK) = COMMAND_TM_STOP_AFTER_TC
             THEN timer_stop_count(s2)
             ELSE timer_reload_count(s2)
    ELSE LET s1 == [s EXCEPT !.timer = (And(s.count_loaded, 16382) \div 2)
                                       + And(s.count_loaded, 1),
                             !.count_even_phase = TRUE]
         IN  IF And(get_timer_mode(s1), TIMER_MODE_TC_PULSE) = 0
             THEN timer_output(s1, 0)
             ELSE [s1 EXCEPT !.timer_tc =
                                 (Max(And(s1.count_loaded, 16382), 2) - 2) \div 2]

\* mutant of timer_half_counted: the terminal-count event is scheduled for the
\* end of the even half
timer_half_counted_late_tc(s) ==
    IF s.count_even_phase
    THEN LET s1 == timer_output(s, 1)
             s2 == [s1 EXCEPT !.count_even_phase = FALSE]
         IN  IF And(get_timer_mode(s2), TIMER_MODE_AUTO_RELOAD) = 0
                \/ And(s2.command, COMMAND_TM_MASK) = COMMAND_TM_STOP_AFTER_TC
             THEN timer_stop_count(s2)
             ELSE timer_reload_count(s2)
    ELSE LET s1 == [s EXCEPT !.timer = And(s.count_loaded, 16382) \div 2,
                             !.count_even_phase = TRUE]
         IN  IF And(get_timer_mode(s1), TIMER_MODE_TC_PULSE) = 0
             THEN timer_output(s1, 0)
             ELSE [s1 EXCEPT !.timer_tc = And(s1.count_loaded, 16382) \div 2]

\* mutant of timer_half_counted: the terminal-count timer is scheduled in
\* every mode
timer_half_counted_tc_always(s) ==
    IF s.count_even_phase
    THEN LET s1 == timer_output(s, 1)
             s2 == [s1 EXCEPT !.count_even_phase = FALSE]
         IN  IF And(get_timer_mode(s2), TIMER_MODE_AUTO_RELOAD) = 0
                \/ And(s2.command, COMMAND_TM_MASK) = COMMAND_TM_STOP_AFTER_TC
             THEN timer_stop_count(s2)
             ELSE timer_reload_count(s2)
    ELSE LET s1 == [s EXCEPT !.timer = And(s.count_loaded, 16382) \div 2,
                             !.count_even_phase = TRUE]
         IN  IF And(get_timer_mode(s1), TIMER_MODE_TC_PULSE) = 0
             THEN timer_output(
                      [s1 EXCEPT !.timer_tc =
                                     (Max(And(s1.count_loaded, 16382), 2) - 2) \div 2],
                      0)
             ELSE [s1 EXCEPT !.timer_tc =
                                 (Max(And(s1.count_loaded, 16382), 2) - 2) \div 2]

\* mutant of timer_half_counted: the even half of a square wave leaves TO as
\* it is
timer_half_counted_no_low(s) ==
    IF s.count_even_phase
    THEN LET s1 == timer_output(s, 1)
             s2 == [s1 EXCEPT !.count_even_phase = FALSE]
         IN  IF And(get_timer_mode(s2), TIMER_MODE_AUTO_RELOAD) = 0
                \/ And(s2.command, COMMAND_TM_MASK) = COMMAND_TM_STOP_AFTER_TC
             THEN timer_stop_count(s2)
             ELSE timer_reload_count(s2)
    ELSE LET s1 == [s EXCEPT !.timer = And(s.count_loaded, 16382) \div 2,
                             !.count_even_phase = TRUE]
         IN  IF And(get_timer_mode(s1), TIMER_MODE_TC_PULSE) = 0
             THEN s1
             ELSE [s1 EXCEPT !.timer_tc =
                                 (Max(And(s1.count_loaded, 16382), 2) - 2) \div 2]

\* mutant of timer_half_counted: at terminal count the loaded count is
\* repeated, whatever was programmed meanwhile
timer_half_counted_repeat(s) ==
    IF s.count_even_phase
    THEN LET s1 == timer_output(s, 1)
             s2 == [s1 EXCEPT !.count_even_phase = FALSE]
         IN  IF And(get_timer_mode(s2), TIMER_MODE_AUTO_RELOAD) = 0
                \/ And(s2.command, COMMAND_TM_MASK) = COMMAND_TM_STOP_AFTER_TC
             THEN timer_stop_count(s2)
             ELSE timer_output(
                      [s2 EXCEPT !.timer = (And(s2.count_loaded, 16382) \div 2)
                                           + And(s2.count_loaded, 1)],
                      1)
    ELSE LET s1 == [s EXCEPT !.timer = And(s.count_loaded, 16382) \div 2,
                             !.count_even_phase = TRUE]
         IN  IF And(get_timer_mode(s1), TIMER_MODE_TC_PULSE) = 0
             THEN timer_output(s1, 0)
             ELSE [s1 EXCEPT !.timer_tc =
                                 (Max(And(s1.count_loaded, 16382), 2) - 2) \div 2]

timer_half_counted(s) ==
    IF s.count_even_phase
    THEN LET s1 == timer_output(s, 1)
             s2 == [s1 EXCEPT !.count_even_phase = FALSE]
         IN  IF And(get_timer_mode(s2), TIMER_MODE_AUTO_RELOAD) = 0
                \/ And(s2.command, COMMAND_TM_MASK) = COMMAND_TM_STOP_AFTER_TC
             THEN timer_stop_count(s2)
             ELSE timer_reload_count(s2)
    ELSE LET s1 == [s EXCEPT !.timer = And(s.count_loaded, 16382) \div 2,
                             !.count_even_phase = TRUE]
         IN  IF And(get_timer_mode(s1), TIMER_MODE_TC_PULSE) = 0
             THEN timer_output(s1, 0)
             ELSE [s1 EXCEPT !.timer_tc =
                                 (Max(And(s1.count_loaded, 16382), 2) - 2) \div 2]

\* mutant of timer_tc: the timer flag is not set
timer_tc_no_flag(s) ==
    IF And(get_timer_mode(s), TIMER_MODE_TC_PULSE) # 0 THEN timer_output(s, 0) ELSE s

\* mutant of timer_tc: the flag is set, TO is not driven
timer_tc_no_pulse(s) ==
    [s EXCEPT !.status = Or(@, STATUS_TIMER)]

timer_tc(s) ==
    LET s1 == IF And(get_timer_mode(s), TIMER_MODE_TC_PULSE) # 0
              THEN timer_output(s, 0)
              ELSE s
    IN  [s1 EXCEPT !.status = Or(@, STATUS_TIMER)]

\* ------------------------------------------------------------------------
\* Register access
\* ------------------------------------------------------------------------
\* mutant of write_command: Start reloads the count also while it is running
write_command_restart(s, data) ==
    LET old_command == s.command
        s1 == [s EXCEPT !.command = data]
        s2 == IF And(data, COMMAND_PA) # 0 /\ And(old_command, COMMAND_PA) = 0
              THEN [s1 EXCEPT !.cb = Append(@, <<"out_pa", s1.output[PORT_A + 1]>>)]
              ELSE s1
        s3 == IF And(data, COMMAND_PB) # 0 /\ And(old_command, COMMAND_PB) = 0
              THEN [s2 EXCEPT !.cb = Append(@, <<"out_pb", s2.output[PORT_B + 1]>>)]
              ELSE s2
        s4 == IF And(data, COMMAND_PC_MASK) = COMMAND_PC_ALT_2
                 /\ And(old_command, COMMAND_PC_MASK) # COMMAND_PC_ALT_2
              THEN [s3 EXCEPT !.cb = Append(@, <<"out_pc", s3.output[PORT_C + 1]>>)]
              ELSE s3
    IN  CASE And(data, COMMAND_TM_MASK) = COMMAND_TM_NOP -> s4
          [] And(data, COMMAND_TM_MASK) = COMMAND_TM_STOP -> timer_stop_count(s4)
          [] And(data, COMMAND_TM_MASK) = COMMAND_TM_STOP_AFTER_TC -> s4
          [] And(data, COMMAND_TM_MASK) = COMMAND_TM_START -> timer_reload_count(s4)

\* mutant of write_command: ports A and B are flushed whenever they are
\* programmed as outputs, switched or not
write_command_flush_always(s, data) ==
    LET old_command == s.command
        s1 == [s EXCEPT !.command = data]
        s2 == IF And(data, COMMAND_PA) # 0
              THEN [s1 EXCEPT !.cb = Append(@, <<"out_pa", s1.output[PORT_A + 1]>>)]
              ELSE s1
        s3 == IF And(data, COMMAND_PB) # 0
              THEN [s2 EXCEPT !.cb = Append(@, <<"out_pb", s2.output[PORT_B + 1]>>)]
              ELSE s2
        s4 == IF And(data, COMMAND_PC_MASK) = COMMAND_PC_ALT_2
                 /\ And(old_command, COMMAND_PC_MASK) # COMMAND_PC_ALT_2
              THEN [s3 EXCEPT !.cb = Append(@, <<"out_pc", s3.output[PORT_C + 1]>>)]
              ELSE s3
    IN  CASE And(data, COMMAND_TM_MASK) = COMMAND_TM_NOP -> s4
          [] And(data, COMMAND_TM_MASK) = COMMAND_TM_STOP -> timer_stop_count(s4)
          [] And(data, COMMAND_TM_MASK) = COMMAND_TM_STOP_AFTER_TC -> s4
          [] And(data, COMMAND_TM_MASK) = COMMAND_TM_START ->
                IF running(s4.timer) THEN s4 ELSE timer_reload_count(s4)

\* mutant of write_command: Start while stopped resumes the count that a Stop
\* left in count_loaded
write_command_resume(s, data) ==
    LET old_command == s.command
        s1 == [s EXCEPT !.command = data]
        s2 == IF And(data, COMMAND_PA) # 0 /\ And(old_command, COMMAND_PA) = 0
              THEN [s1 EXCEPT !.cb = Append(@, <<"out_pa", s1.output[PORT_A + 1]>>)]
              ELSE s1
        s3 == IF And(data, COMMAND_PB) # 0 /\ And(old_command, COMMAND_PB) = 0
              THEN [s2 EXCEPT !.cb = Append(@, <<"out_pb", s2.output[PORT_B + 1]>>)]
              ELSE s2
        s4 == IF And(data, COMMAND_PC_MASK) = COMMAND_PC_ALT_2
                 /\ And(old_command, COMMAND_PC_MASK) # COMMAND_PC_ALT_2
              THEN [s3 EXCEPT !.cb = Append(@, <<"out_pc", s3.output[PORT_C + 1]>>)]
              ELSE s3
    IN  CASE And(data, COMMAND_TM_MASK) = COMMAND_TM_NOP -> s4
          [] And(data, COMMAND_TM_MASK) = COMMAND_TM_STOP -> timer_stop_count(s4)
          [] And(data, COMMAND_TM_MASK) = COMMAND_TM_STOP_AFTER_TC -> s4
          [] And(data, COMMAND_TM_MASK) = COMMAND_TM_START ->
                IF running(s4.timer) THEN s4 ELSE timer_reload_count_keep(s4)

\* mutant of write_command: the port C mode bits are decoded for the log only
write_command_no_pc_flush(s, data) ==
    LET old_command == s.command
        s1 == [s EXCEPT !.command = data]
        s2 == IF And(data, COMMAND_PA) # 0 /\ And(old_command, COMMAND_PA) = 0
              THEN [s1 EXCEPT !.cb = Append(@, <<"out_pa", s1.output[PORT_A + 1]>>)]
              ELSE s1
        s3 == IF And(data, COMMAND_PB) # 0 /\ And(old_command, COMMAND_PB) = 0
              THEN [s2 EXCEPT !.cb = Append(@, <<"out_pb", s2.output[PORT_B + 1]>>)]
              ELSE s2
        s4 == s3
    IN  CASE And(data, COMMAND_TM_MASK) = COMMAND_TM_NOP -> s4
          [] And(data, COMMAND_TM_MASK) = COMMAND_TM_STOP -> timer_stop_count(s4)
          [] And(data, COMMAND_TM_MASK) = COMMAND_TM_STOP_AFTER_TC -> s4
          [] And(data, COMMAND_TM_MASK) = COMMAND_TM_START ->
                IF running(s4.timer) THEN s4 ELSE timer_reload_count(s4)

write_command(s, data) ==
    LET old_command == s.command
        s1 == [s EXCEPT !.command = data]
        s2 == IF And(data, COMMAND_PA) # 0 /\ And(old_command, COMMAND_PA) = 0
              THEN [s1 EXCEPT !.cb = Append(@, <<"out_pa", s1.output[PORT_A + 1]>>)]
              ELSE s1
        s3 == IF And(data, COMMAND_PB) # 0 /\ And(old_command, COMMAND_PB) = 0
              THEN [s2 EXCEPT !.cb = Append(@, <<"out_pb", s2.output[PORT_B + 1]>>)]
              ELSE s2
        s4 == IF And(data, COMMAND_PC_MASK) = COMMAND_PC_ALT_2
                 /\ And(old_command, COMMAND_PC_MASK) # COMMAND_PC_ALT_2
              THEN [s3 EXCEPT !.cb = Append(@, <<"out_pc", s3.output[PORT_C + 1]>>)]
              ELSE s3
    IN  CASE And(data, COMMAND_TM_MASK) = COMMAND_TM_NOP -> s4
          [] And(data, COMMAND_TM_MASK) = COMMAND_TM_STOP -> timer_stop_count(s4)
          [] And(data, COMMAND_TM_MASK) = COMMAND_TM_STOP_AFTER_TC -> s4
          [] And(data, COMMAND_TM_MASK) = COMMAND_TM_START ->
                IF running(s4.timer) THEN s4 ELSE timer_reload_count(s4)

\* mutant of register_w: four address bits are decoded
register_w_4bit(s, offset, data) ==
    CASE And(offset, 15) = REGISTER_COMMAND -> write_command(s, data)
      [] And(offset, 15) = REGISTER_PORT_A -> write_port(s, PORT_A, data)
      [] And(offset, 15) = REGISTER_PORT_B -> write_port(s, PORT_B, data)
      [] And(offset, 15) = REGISTER_PORT_C -> write_port(s, PORT_C, And(data, 63))
      [] And(offset, 15) = REGISTER_TIMER_LOW ->
            [s EXCEPT !.count_length = Or(And(s.count_length, 65280), data)]
      [] And(offset, 15) = REGISTER_TIMER_HIGH ->
            [s EXCEPT !.count_length = Or(data * 256, And(s.count_length, 255))]
      [] OTHER -> s

\* mutant of register_w: a count length register write takes effect at once
register_w_load(s, offset, data) ==
    CASE And(offset, 7) = REGISTER_COMMAND -> write_command(s, data)
      [] And(offset, 7) = REGISTER_PORT_A -> write_port(s, PORT_A, data)
      [] And(offset, 7) = REGISTER_PORT_B -> write_port(s, PORT_B, data)
      [] And(offset, 7) = REGISTER_PORT_C -> write_port(s, PORT_C, And(data, 63))
      [] And(offset, 7) = REGISTER_TIMER_LOW ->
            [s EXCEPT !.count_length = Or(And(s.count_length, 65280), data),
                      !.count_loaded = Or(And(s.count_length, 65280), data)]
      [] And(offset, 7) = REGISTER_TIMER_HIGH ->
            [s EXCEPT !.count_length = Or(data * 256, And(s.count_length, 255)),
                      !.count_loaded = Or(data * 256, And(s.count_length, 255))]
      [] OTHER -> s

register_w(s, offset, data) ==
    CASE And(offset, 7) = REGISTER_COMMAND -> write_command(s, data)
      [] And(offset, 7) = REGISTER_PORT_A -> write_port(s, PORT_A, data)
      [] And(offset, 7) = REGISTER_PORT_B -> write_port(s, PORT_B, data)
      [] And(offset, 7) = REGISTER_PORT_C -> write_port(s, PORT_C, And(data, 63))
      [] And(offset, 7) = REGISTER_TIMER_LOW ->
            [s EXCEPT !.count_length = Or(And(s.count_length, 65280), data)]
      [] And(offset, 7) = REGISTER_TIMER_HIGH ->
            [s EXCEPT !.count_length = Or(data * 256, And(s.count_length, 255))]
      [] OTHER -> s

\* mutant of io_r: port C is returned as read_port gives it
io_r_port_c_raw(s, offset, side_effects_disabled, pin) ==
    CASE And(offset, 7) = REGISTER_STATUS ->
            [dev |-> IF side_effects_disabled THEN s
                     ELSE [s EXCEPT !.status = AndNot(@, STATUS_TIMER)],
             data |-> s.status]
      [] And(offset, 7) = REGISTER_PORT_A -> read_port(s, PORT_A, pin)
      [] And(offset, 7) = REGISTER_PORT_B -> read_port(s, PORT_B, pin)
      [] And(offset, 7) = REGISTER_PORT_C -> read_port(s, PORT_C, pin)
      [] And(offset, 7) = REGISTER_TIMER_LOW ->
            [dev |-> s, data |-> And(get_timer_count(s), 255)]
      [] And(offset, 7) = REGISTER_TIMER_HIGH ->
            [dev |-> s,
             data |-> Or(And(get_timer_count(s) \div 256, 63), get_timer_mode(s))]
      [] OTHER -> [dev |-> s, data |-> 0]

\* mutant of io_r: register 5 returns the mode bits last written to it
io_r_programmed_mode(s, offset, side_effects_disabled, pin) ==
    CASE And(offset, 7) = REGISTER_STATUS ->
            [dev |-> IF side_effects_disabled THEN s
                     ELSE [s EXCEPT !.status = AndNot(@, STATUS_TIMER)],
             data |-> s.status]
      [] And(offset, 7) = REGISTER_PORT_A -> read_port(s, PORT_A, pin)
      [] And(offset, 7) = REGISTER_PORT_B -> read_port(s, PORT_B, pin)
      [] And(offset, 7) = REGISTER_PORT_C ->
            [dev |-> read_port(s, PORT_C, pin).dev,
             data |-> Or(read_port(s, PORT_C, pin).data, 192)]
      [] And(offset, 7) = REGISTER_TIMER_LOW ->
            [dev |-> s, data |-> And(get_timer_count(s), 255)]
      [] And(offset, 7) = REGISTER_TIMER_HIGH ->
            [dev |-> s,
             data |-> Or(And(get_timer_count(s) \div 256, 63),
                         And(s.count_length \div 256, TIMER_MODE_MASK))]
      [] OTHER -> [dev |-> s, data |-> 0]

\* mutant of io_r: the timer flag is cleared also when side effects are disabled
io_r_always_clears(s, offset, side_effects_disabled, pin) ==
    CASE And(offset, 7) = REGISTER_STATUS ->
            [dev |-> [s EXCEPT !.status = AndNot(@, STATUS_TIMER)], data |-> s.status]
      [] And(offset, 7) = REGISTER_PORT_A -> read_port(s, PORT_A, pin)
      [] And(offset, 7) = REGISTER_PORT_B -> read_port(s, PORT_B, pin)
      [] And(offset, 7) = REGISTER_PORT_C ->
            [dev |-> read_port(s, PORT_C, pin).dev,
             data |-> Or(read_port(s, PORT_C, pin).data, 192)]
      [] And(offset, 7) = REGISTER_TIMER_LOW ->
            [dev |-> s, data |-> And(get_timer_count(s), 255)]
      [] And(offset, 7) = REGISTER_TIMER_HIGH ->
            [dev |-> s,
             data |-> Or(And(get_timer_count(s) \div 256, 63), get_timer_mode(s))]
      [] OTHER -> [dev |-> s, data |-> 0]

\* io_r: `side_effects_disabled` is machine().side_effects_disabled()
\* mutant of io_r: the unused register indexes read as a floating bus
io_r_unused_high(s, offset, side_effects_disabled, pin) ==
    CASE And(offset, 7) = REGISTER_STATUS ->
            [dev |-> IF side_effects_disabled THEN s
                     ELSE [s EXCEPT !.status = AndNot(@, STATUS_TIMER)],
             data |-> s.status]
      [] And(offset, 7) = REGISTER_PORT_A -> read_port(s, PORT_A, pin)
      [] And(offset, 7) = REGISTER_PORT_B -> read_port(s, PORT_B, pin)
      [] And(offset, 7) = REGISTER_PORT_C ->
            [dev |-> read_port(s, PORT_C, pin).dev,
             data |-> Or(read_port(s, PORT_C, pin).data, 192)]
      [] And(offset, 7) = REGISTER_TIMER_LOW ->
            [dev |-> s, data |-> And(get_timer_count(s), 255)]
      [] And(offset, 7) = REGISTER_TIMER_HIGH ->
            [dev |-> s,
             data |-> Or(And(get_timer_count(s) \div 256, 63), get_timer_mode(s))]
      [] OTHER -> [dev |-> s, data |-> 255]

io_r(s, offset, side_effects_disabled, pin) ==
    CASE And(offset, 7) = REGISTER_STATUS ->
            [dev |-> IF side_effects_disabled THEN s
                     ELSE [s EXCEPT !.status = AndNot(@, STATUS_TIMER)],
             data |-> s.status]
      [] And(offset, 7) = REGISTER_PORT_A -> read_port(s, PORT_A, pin)
      [] And(offset, 7) = REGISTER_PORT_B -> read_port(s, PORT_B, pin)
      [] And(offset, 7) = REGISTER_PORT_C ->
            [dev |-> read_port(s, PORT_C, pin).dev,
             data |-> Or(read_port(s, PORT_C, pin).data, 192)]
      [] And(offset, 7) = REGISTER_TIMER_LOW ->
            [dev |-> s, data |-> And(get_timer_count(s), 255)]
      [] And(offset, 7) = REGISTER_TIMER_HIGH ->
            [dev |-> s,
             data |-> Or(And(get_timer_count(s) \div 256, 63), get_timer_mode(s))]
      [] OTHER -> [dev |-> s, data |-> 0]

io_w(s, offset, data) == register_w(s, offset, data)

\* RAM is cleared at device_start; m_ram holds the bytes written since
memory_r(s, offset) ==
    IF And(offset, 255) \in DOMAIN s.ram THEN s.ram[And(offset, 255)] ELSE 0

\* mutant of memory_w: the top address bit is dropped
memory_w_7bit(s, offset, data) ==
    [s EXCEPT !.ram = [a \in (DOMAIN s.ram) \cup {And(offset, 127)} |->
                          IF a = And(offset, 127) THEN data ELSE s.ram[a]]]

\* mutant of memory_w: the byte is also stored 128 bytes further
memory_w_mirror(s, offset, data) ==
    [s EXCEPT !.ram = [a \in (DOMAIN s.ram)
                              \cup {And(offset, 255), (And(offset, 255) + 128) % 256} |->
                          IF a \in {And(offset, 255), (And(offset, 255) + 128) % 256}
                          THEN data ELSE s.ram[a]]]

memory_w(s, offset, data) ==
    [s EXCEPT !.ram = [a \in (DOMAIN s.ram) \cup {And(offset, 255)} |->
                          IF a = And(offset, 255) THEN data ELSE s.ram[a]]]

ale_w(s, offset, data) == [s EXCEPT !.io_m = And(offset, 1), !.ad = data]

data_r(s, side_effects_disabled, pin) ==
    IF s.io_m = MEMORY
    THEN [dev |-> s, data |-> memory_r(s, s.ad)]
    ELSE io_r(s, s.ad, side_effects_disabled, pin)

data_w(s, data) ==
    IF s.io_m = MEMORY THEN memory_w(s, s.ad, data) ELSE io_w(s, s.ad, data)

\* mutant of device_reset: the timer is left to the re-issued command
device_reset_no_stop(s) ==
    LET s1 == [s EXCEPT !.output = <<0, 0, 0>>]
        s2 == register_w(s1, REGISTER_COMMAND,
                         AndNot(s1.command, COMMAND_PA + COMMAND_PB + COMMAND_PC_MASK))
    IN  [s2 EXCEPT !.status = AndNot(@, STATUS_TIMER)]

\* mutant of device_reset: the whole command register is cleared
device_reset_clear_command(s) ==
    LET s1 == [s EXCEPT !.output = <<0, 0, 0>>]
        s2 == register_w(s1, REGISTER_COMMAND, 0)
        s3 == [s2 EXCEPT !.status = AndNot(@, STATUS_TIMER)]
    IN  timer_stop_count(s3)

device_reset(s) ==
    LET s1 == [s EXCEPT !.output = <<0, 0, 0>>]
        s2 == register_w(s1, REGISTER_COMMAND,
                         AndNot(s1.command, COMMAND_PA + COMMAND_PB + COMMAND_PC_MASK))
        s3 == [s2 EXCEPT !.status = AndNot(@, STATUS_TIMER)]
    IN  timer_stop_count(s3)

\* ------------------------------------------------------------------------
\* Inputs
\* ------------------------------------------------------------------------
\* command bytes written: the four timer commands, and Stop with port A output
CommandBytes == {COMMAND_TM_NOP, COMMAND_TM_STOP, COMMAND_TM_STOP + COMMAND_PA,
                 COMMAND_TM_STOP_AFTER_TC, COMMAND_TM_START}
\* low and high byte written to the count length register
CountLowBytes == 1 .. MaxLen
CountHighBytes == {0, TIMER_MODE_AUTO_RELOAD, TIMER_MODE_TC_PULSE,
                   TIMER_MODE_TC_PULSE + TIMER_MODE_AUTO_RELOAD}
\* what a member that the constructor leaves uninitialised may hold
UninitBytes == {0, 255}
\* where in a clock tick a bus access falls: on the edge, or after it
SubTick == {0, 1}
\* does m_timer->running() hold inside m_timer's own callback
InCallbackRunning == BOOLEAN

\* the clock since the last Start is followed up to here
MaxClock == 2 * MaxLen + 1

\* ------------------------------------------------------------------------
\* Observation of one operation
\* ------------------------------------------------------------------------
\* falling edges of TO among the callbacks of one operation
RECURSIVE Falls(_)
Falls(log) ==
    IF log = <<>> THEN 0
    ELSE (IF Head(log) = <<"to", 0>> THEN 1 ELSE 0) + Falls(Tail(log))

Commit(n) ==
    /\ m_io_m' = n.io_m
    /\ m_ad' = n.ad
    /\ m_command' = n.command
    /\ m_status' = n.status
    /\ m_output' = n.output
    /\ m_ram' = n.ram
    /\ m_count_length' = n.count_length
    /\ m_count_loaded' = n.count_loaded
    /\ m_to' = n.to
    /\ m_count_even_phase' = n.count_even_phase
    /\ m_timer' = n.timer
    /\ m_timer_tc' = n.timer_tc
    /\ cb' = n.cb

Track(c, l, t, r) ==
    /\ clk' = c
    /\ lows' = IF c = -1 THEN 0 ELSE l
    /\ tcs' = IF c = -1 THEN 0 ELSE t
    /\ statusRead' = IF c = -1 THEN FALSE ELSE r

Untrack == Track(-1, 0, 0, FALSE)
KeepTrack == UNCHANGED <<clk, lows, tcs, statusRead>>

\* an operation that is no bus access
NoArg == [offset |-> -1, data |-> -1]

\* a deferred Start that a terminal count has just met is noted for one step
Pend == IF startDeferred = "due" THEN "no" ELSE startDeferred

\* where in a tick an operation falls matters only to a scheduled emu_timer
Parts == IF running(m_timer) THEN SubTick ELSE {0}

\* no emu_timer is due: the scheduler runs due callbacks before anything else
Quiet == powered /\ m_timer # 0 /\ m_timer_tc # 0

\* ------------------------------------------------------------------------
\* Operations
\* ------------------------------------------------------------------------
DeviceReset ==
    /\ m_timer # 0 /\ m_timer_tc # 0
    /\ \E part \in Parts : \E n \in {device_reset(DevAt(part))} : Commit(n)
    /\ powered' = TRUE
    /\ ret' = -1
    /\ op' = [name |-> "device_reset", running |-> FALSE, repeat |-> FALSE]
    /\ arg' = NoArg
    /\ UNCHANGED written
    /\ Untrack
    /\ startDeferred' = "no"

\* a write that reaches register_w, from io_w or from data_w
WriteIo(offset, data) ==
    \E part \in Parts :
    \E s \in {DevAt(part)} :
    \E n \in {io_w(s, offset, data)} :
    LET reg == And(offset, 7)
        tm == And(data, COMMAND_TM_MASK)
    IN  /\ Commit(n)
        /\ UNCHANGED powered
        /\ ret' = -1
        /\ op' = [name |-> CASE reg = REGISTER_COMMAND -> "write_command"
                             [] reg \in {REGISTER_TIMER_LOW, REGISTER_TIMER_HIGH} -> "write_count"
                             [] reg \in {REGISTER_PORT_A, REGISTER_PORT_B, REGISTER_PORT_C} -> "write_port"
                             [] OTHER -> "write_none",
                  running |-> reg = REGISTER_COMMAND /\ running(s.timer),
                  repeat |-> reg = REGISTER_COMMAND /\ data = s.command]
        /\ arg' = [offset |-> offset, data |-> data]
        /\ UNCHANGED written
        /\ CASE reg = REGISTER_COMMAND /\ tm = COMMAND_TM_START /\ ~running(s.timer) ->
                    Track(0, 0, 0, FALSE) /\ startDeferred' = "no"
             [] reg = REGISTER_COMMAND /\ tm = COMMAND_TM_START /\ running(s.timer) ->
                    KeepTrack /\ startDeferred' = "pending"
             [] reg = REGISTER_COMMAND /\ tm = COMMAND_TM_NOP ->
                    KeepTrack /\ startDeferred' = "no"
             [] reg = REGISTER_COMMAND /\ tm \in {COMMAND_TM_STOP, COMMAND_TM_STOP_AFTER_TC} ->
                    Untrack /\ startDeferred' = "no"
             [] reg \in {REGISTER_TIMER_LOW, REGISTER_TIMER_HIGH}
                /\ n.count_length # s.count_length ->
                    Untrack /\ startDeferred' = Pend
             [] OTHER -> KeepTrack /\ startDeferred' = Pend

\* a read that reaches io_r, from io_r or from data_r
ReadIo(offset, side_effects_disabled, pin) ==
    \E part \in Parts :
    \E s \in {DevAt(part)} :
    \E r \in {io_r(s, offset, side_effects_disabled, pin)} :
        /\ Commit(r.dev)
        /\ UNCHANGED powered
        /\ ret' = r.data
        /\ op' = [name |-> IF And(offset, 7) = REGISTER_STATUS
                           THEN (IF side_effects_disabled THEN "peek_status" ELSE "read_status")
                           ELSE "read_io",
                  running |-> FALSE, repeat |-> FALSE]
        /\ arg' = [offset |-> offset, data |-> pin]
        /\ UNCHANGED written
        /\ IF And(offset, 7) = REGISTER_STATUS /\ ~side_effects_disabled
           THEN Track(clk, lows, tcs, TRUE)
           ELSE KeepTrack
        /\ startDeferred' = Pend

WriteMemory(offset, data) ==
    /\ \E n \in {memory_w(Dev, offset, data)} : Commit(n)
    /\ UNCHANGED powered
    /\ ret' = -1
    /\ op' = [name |-> "memory_w", running |-> FALSE, repeat |-> FALSE]
    /\ arg' = [offset |-> offset, data |-> data]
    /\ written' = [a \in (DOMAIN written) \cup {offset} |->
                       IF a = offset THEN data ELSE written[a]]
    /\ KeepTrack
    /\ startDeferred' = Pend

ReadMemory(offset) ==
    /\ Commit(Dev)
    /\ UNCHANGED powered
    /\ ret' = memory_r(Dev, offset)
    /\ op' = [name |-> "memory_r", running |-> FALSE, repeat |-> FALSE]
    /\ arg' = [offset |-> offset, data |-> -1]
    /\ UNCHANGED written
    /\ KeepTrack
    /\ startDeferred' = Pend

IoW(offset, data) == Quiet /\ WriteIo(offset, data)

IoR(offset, side_effects_disabled, pin) ==
    Quiet /\ ReadIo(offset, side_effects_disabled, pin)

MemoryW(offset, data) == Quiet /\ WriteMemory(offset, data)

MemoryR(offset) == Quiet /\ ReadMemory(offset)

AleW(offset, data) ==
    /\ Quiet
    /\ \E n \in {ale_w(Dev, offset, data)} : Commit(n)
    /\ UNCHANGED powered
    /\ ret' = -1
    /\ op' = [name |-> "ale_w", running |-> FALSE, repeat |-> FALSE]
    /\ arg' = [offset |-> offset, data |-> data]
    /\ UNCHANGED written
    /\ KeepTrack
    /\ startDeferred' = Pend

DataW(data) ==
    /\ Quiet
    /\ IF m_io_m = MEMORY THEN WriteMemory(m_ad, data) ELSE WriteIo(m_ad, data)

DataR(side_effects_disabled, pin) ==
    /\ Quiet
    /\ IF m_io_m = MEMORY THEN ReadMemory(m_ad)
       ELSE ReadIo(m_ad, side_effects_disabled, pin)

\* one clock tick passes while no callback is due
Tick ==
    /\ Quiet
    /\ m_timer' = IF running(m_timer) THEN m_timer - 1 ELSE Never
    /\ m_timer_tc' = IF running(m_timer_tc) THEN m_timer_tc - 1 ELSE Never
    /\ UNCHANGED <<m_io_m, m_ad, m_command, m_status, m_output, m_ram, m_count_length,
                   m_count_loaded, m_to, m_count_even_phase, powered>>
    /\ cb' = <<>>
    /\ ret' = -1
    /\ op' = [name |-> "tick", running |-> FALSE, repeat |-> FALSE]
    /\ arg' = NoArg
    /\ UNCHANGED written
    /\ IF clk = -1 \/ clk = MaxClock THEN Untrack
       ELSE Track(clk + 1, lows, tcs, statusRead)
    /\ startDeferred' = Pend

\* time passes, with no bus access, until the next scheduled callback is due;
\* the clock since the last Start is followed through one count of any length
Elapse ==
    /\ Quiet
    /\ running(m_timer) \/ running(m_timer_tc)
    /\ \E d \in {IF ~running(m_timer_tc) THEN m_timer
                  ELSE IF ~running(m_timer) THEN m_timer_tc
                  ELSE Min(m_timer, m_timer_tc)} :
          /\ m_timer' = IF running(m_timer) THEN m_timer - d ELSE Never
          /\ m_timer_tc' = IF running(m_timer_tc) THEN m_timer_tc - d ELSE Never
          /\ arg' = [offset |-> -1, data |-> d]
          /\ IF clk = -1 \/ clk + d > MaxCount THEN Untrack
             ELSE Track(clk + d, lows, tcs, statusRead)
    /\ UNCHANGED <<m_io_m, m_ad, m_command, m_status, m_output, m_ram, m_count_length,
                   m_count_loaded, m_to, m_count_even_phase, powered, written>>
    /\ cb' = <<>>
    /\ ret' = -1
    /\ op' = [name |-> "elapse", running |-> FALSE, repeat |-> FALSE]
    /\ startDeferred' = Pend

\* the scheduler calls timer_half_counted when m_timer expires; a one-shot
\* timer that its callback did not adjust is left unscheduled
TimerHalfCounted ==
    /\ m_timer = 0
    /\ \E inCb \in InCallbackRunning :
          \E s \in {[Dev EXCEPT !.timer = IF inCb THEN 0 ELSE Never]} :
          \E n \in {timer_half_counted(s)} :
              /\ Commit([n EXCEPT !.timer = IF @ = 0 THEN Never ELSE @])
              /\ IF clk = -1 THEN Untrack
                 ELSE Track(clk, lows + Falls(n.cb),
                            IF s.count_even_phase THEN tcs + 1 ELSE tcs, statusRead)
    /\ UNCHANGED powered
    /\ ret' = -1
    /\ op' = [name |-> "timer_half_counted", running |-> FALSE, repeat |-> FALSE]
    /\ arg' = NoArg
    /\ UNCHANGED written
    /\ startDeferred' = IF m_count_even_phase
                        THEN (IF startDeferred = "pending" THEN "due" ELSE "no")
                        ELSE Pend

\* the scheduler calls timer_tc when m_timer_tc expires
TimerTc ==
    /\ m_timer_tc = 0
    /\ \E n \in {timer_tc(Dev)} :
           /\ Commit([n EXCEPT !.timer_tc = Never])
           /\ IF clk = -1 THEN Untrack
              ELSE Track(clk, lows + Falls(n.cb), tcs, statusRead)
    /\ UNCHANGED powered
    /\ ret' = -1
    /\ op' = [name |-> "timer_tc", running |-> FALSE, repeat |-> FALSE]
    /\ arg' = NoArg
    /\ UNCHANGED written
    /\ startDeferred' = Pend

\* ------------------------------------------------------------------------
\* The device after construction and device_start
\* ------------------------------------------------------------------------
Init ==
    /\ m_io_m \in {MEMORY, IO}
    /\ m_ad \in UninitBytes
    /\ m_command = 0
    /\ m_status = 0
    /\ m_output \in [1 .. 3 -> UninitBytes]
    /\ m_ram = [a \in {} |-> 0]
    /\ m_count_length = 0
    /\ m_count_loaded = 0
    /\ m_to = 0
    /\ m_count_even_phase = FALSE
    /\ m_timer = Never
    /\ m_timer_tc = Never
    /\ powered = FALSE
    /\ cb = <<>>
    /\ ret = -1
    /\ op = [name |-> "device_start", running |-> FALSE, repeat |-> FALSE]
    /\ clk = -1
    /\ lows = 0
    /\ tcs = 0
    /\ statusRead = FALSE
    /\ startDeferred = "no"
    /\ arg = NoArg
    /\ written = [a \in {} |-> 0]

\* the address latch and the port latches play no part in register access
\* through io_r and io_w: one of their possible values stands for all
InitRegs == Init /\ m_io_m = MEMORY /\ m_ad = 0 /\ m_output = <<0, 0, 0>>

\* the timer driven through the register interface
Next ==
    \/ DeviceReset
    \/ \E d \in CommandBytes : IoW(REGISTER_COMMAND, d)
    \/ \E d \in CountLowBytes : IoW(REGISTER_TIMER_LOW, d)
    \/ \E d \in CountHighBytes : IoW(REGISTER_TIMER_HIGH, d)
    \/ IoR(REGISTER_STATUS, FALSE, 0)
    \/ Tick
    \/ TimerHalfCounted
    \/ TimerTc

Spec == InitRegs /\ [][Next]_vars

\* what the bus writes at a latched address: a RAM byte in memory mode, and in
\* I/O mode a command, a port value or a byte of the count length
BusAddresses == {REGISTER_COMMAND, REGISTER_TIMER_LOW, REGISTER_TIMER_HIGH,
                 REGISTER_PORT_A + 8}
\* the RAM address accessed: one whose low bits are those of a register index
RamAddress == REGISTER_PORT_A + 8
BusCommands == {COMMAND_PA, COMMAND_TM_START}
PortBytes == {165}
BusBytes(io_m, ad) ==
    IF io_m = MEMORY THEN PortBytes
    ELSE CASE And(ad, 7) = REGISTER_COMMAND -> BusCommands
           [] And(ad, 7) = REGISTER_TIMER_LOW -> {2}
           [] And(ad, 7) = REGISTER_TIMER_HIGH -> {TIMER_MODE_TC_PULSE}
           [] OTHER -> PortBytes

\* the device driven through the multiplexed bus: ale_w, then data_r or data_w
NextBus ==
    \/ DeviceReset
    \/ \E a \in BusAddresses : AleW(IO, a)
    \/ AleW(MEMORY, RamAddress)
    \/ \E d \in BusBytes(m_io_m, m_ad) : DataW(d)
    \/ \E pin \in PortBytes : DataR(FALSE, pin)
    \/ \E d \in PortBytes : MemoryW(RamAddress, d)
    \/ MemoryR(RamAddress)
    \/ Tick
    \/ TimerHalfCounted
    \/ TimerTc

\* before the first ale_w the latch holds what the constructor left there
InitBus == Init /\ m_ad = 0 /\ m_output = <<0, 0, 0>>

SpecBus == InitBus /\ [][NextBus]_vars

\* RAM addresses latched: the lowest, whose low bits select the command
\* register in I/O mode, and the highest
RamAddresses == {0, 255}
\* register addresses latched between the RAM transfers
RamIoAddresses == {REGISTER_COMMAND, REGISTER_TIMER_LOW, REGISTER_TIMER_HIGH}
RamBytes == {90, 165}
RamBusBytes(io_m, ad) ==
    IF io_m = MEMORY THEN RamBytes
    ELSE CASE And(ad, 7) = REGISTER_COMMAND -> {COMMAND_TM_START}
           [] And(ad, 7) = REGISTER_TIMER_LOW -> {2}
           [] And(ad, 7) = REGISTER_TIMER_HIGH -> {TIMER_MODE_TC_PULSE}
           [] OTHER -> RamBytes

\* RAM and registers accessed in turn through the multiplexed bus while a
\* count runs
NextRam ==
    \/ DeviceReset
    \/ \E a \in RamAddresses : AleW(MEMORY, a)
    \/ \E a \in RamIoAddresses : AleW(IO, a)
    \/ \E d \in RamBusBytes(m_io_m, m_ad) : DataW(d)
    \/ DataR(FALSE, 0)
    \/ Tick
    \/ TimerHalfCounted
    \/ TimerTc

SpecRam == InitBus /\ [][NextRam]_vars

\* command bytes that program the ports: each port alone, all ports output,
\* the two strobed modes of port C, and a Start with port C output
PortCommands == {COMMAND_TM_NOP, COMMAND_PA, COMMAND_PB,
                 COMMAND_PA + COMMAND_PB + COMMAND_PC_ALT_2,
                 COMMAND_PC_ALT_3, COMMAND_PC_ALT_4,
                 COMMAND_TM_START + COMMAND_PC_ALT_2}
\* the byte written to the port registers: bits 6 and 7 are set in it
PortValues == {255}
\* what the input callbacks return: a byte with bits 6 and 7 clear
PinBytes == {60}
PortRegisters == {REGISTER_PORT_A, REGISTER_PORT_B, REGISTER_PORT_C}

\* the ports and the status register driven through the register interface,
\* with a single-pulse count of two ticks to raise the timer flag
NextPorts ==
    \/ DeviceReset
    \/ \E d \in PortCommands : IoW(REGISTER_COMMAND, d)
    \/ \E r \in PortRegisters : \E d \in PortValues : IoW(r, d)
    \/ IoW(REGISTER_TIMER_LOW, 2)
    \/ IoW(REGISTER_TIMER_HIGH, TIMER_MODE_TC_PULSE)
    \/ \E sed \in BOOLEAN : IoR(REGISTER_STATUS, sed, 0)
    \/ \E r \in PortRegisters : \E pin \in PinBytes : IoR(r, FALSE, pin)
    \/ Tick
    \/ TimerHalfCounted
    \/ TimerTc

SpecPorts == InitRegs /\ [][NextPorts]_vars

\* command bytes that leave the timer alone: each of the four port C modes,
\* with ports A and B both inputs or both outputs
ModeCommands == {pc + ab : pc \in {COMMAND_PC_ALT_1, COMMAND_PC_ALT_2,
                                   COMMAND_PC_ALT_3, COMMAND_PC_ALT_4},
                           ab \in {0, COMMAND_PA + COMMAND_PB}}

\* the port modes reprogrammed through the command register, between writes
\* to the port registers and reads of them
NextModes ==
    \/ DeviceReset
    \/ \E d \in ModeCommands : IoW(REGISTER_COMMAND, d)
    \/ \E r \in PortRegisters : \E d \in PortValues : IoW(r, d)
    \/ \E r \in PortRegisters : \E pin \in PinBytes : IoR(r, FALSE, pin)

SpecModes == InitRegs /\ [][NextModes]_vars

\* the count a Start is written with: a square wave of length 2
ReloadBase == TIMER_MODE_AUTO_RELOAD * 256 + 2
\* the mode bytes written to register 5: the two auto-reload modes
ReloadModeBytes == {TIMER_MODE_AUTO_RELOAD,
                    TIMER_MODE_AUTO_RELOAD + TIMER_MODE_TC_PULSE}

\* a count reprogrammed while it runs: Start is written only to a stopped
\* timer programmed with ReloadBase, so that a loaded count other than
\* ReloadBase was written to registers 4/5 after the last Start
NextReload ==
    \/ DeviceReset
    \/ (~running(m_timer) /\ m_count_length = ReloadBase)
       /\ IoW(REGISTER_COMMAND, COMMAND_TM_START)
    \/ IoW(REGISTER_COMMAND, COMMAND_TM_STOP)
    \/ \E d \in CountLowBytes : IoW(REGISTER_TIMER_LOW, d)
    \/ \E d \in ReloadModeBytes : IoW(REGISTER_TIMER_HIGH, d)
    \/ Tick
    \/ TimerHalfCounted
    \/ TimerTc

SpecReload == InitRegs /\ [][NextReload]_vars

\* latched addresses that select no register: indexes 6 and 7, alone and
\* with all higher address bits set
UnusedAddresses == {6, 7, 254, 255}

\* the unused register indexes accessed through the multiplexed bus while a
\* count programmed through the same bus runs
NextUnused ==
    \/ DeviceReset
    \/ \E a \in RamIoAddresses \cup UnusedAddresses : AleW(IO, a)
    \/ \E d \in RamBusBytes(m_io_m, m_ad) : DataW(d)
    \/ \E pin \in PinBytes : DataR(FALSE, pin)
    \/ Tick
    \/ TimerHalfCounted
    \/ TimerTc

SpecUnused == InitBus /\ [][NextUnused]_vars

\* command bytes written before a reset: all ports outputs, a Start, and a
\* stop-after-TC with port C strobed
ResetCommands == {COMMAND_PA + COMMAND_PB + COMMAND_PC_ALT_2, COMMAND_TM_START,
                  COMMAND_TM_STOP_AFTER_TC + COMMAND_PC_ALT_3}

\* resets between writes to the port latches, the RAM and the address latch
\* and a TC_PULSE count of two ticks
NextReset ==
    \/ DeviceReset
    \/ \E d \in ResetCommands : IoW(REGISTER_COMMAND, d)
    \/ \E r \in PortRegisters : \E d \in PortValues : IoW(r, d)
    \/ IoW(REGISTER_TIMER_LOW, 2)
    \/ IoW(REGISTER_TIMER_HIGH, TIMER_MODE_TC_PULSE)
    \/ \E d \in PortBytes : MemoryW(RamAddress, d)
    \/ AleW(IO, RamAddress)
    \/ Tick
    \/ TimerHalfCounted
    \/ TimerTc

SpecReset == InitBus /\ [][NextReset]_vars

\* addresses latched in I/O mode whose bits above the low 3 are not all 0:
\* the command register, ports A and C, both count length registers and the
\* unused index 6
AliasAddresses == {248 + REGISTER_COMMAND, 8 + REGISTER_PORT_A, 8 + REGISTER_PORT_C,
                   248 + REGISTER_TIMER_LOW, 128 + REGISTER_TIMER_HIGH, 254}
AliasBytes(ad) ==
    CASE And(ad, 7) = REGISTER_COMMAND ->
            {COMMAND_PA + COMMAND_PC_ALT_2, COMMAND_TM_START}
      [] And(ad, 7) = REGISTER_TIMER_LOW -> {2}
      [] And(ad, 7) = REGISTER_TIMER_HIGH -> {TIMER_MODE_TC_PULSE}
      [] OTHER -> PortValues

\* the registers accessed through the multiplexed bus at aliased addresses
NextAlias ==
    \/ DeviceReset
    \/ \E a \in AliasAddresses : AleW(IO, a)
    \/ \E d \in AliasBytes(m_ad) : DataW(d)
    \/ \E pin \in PinBytes : DataR(FALSE, pin)
    \/ Tick
    \/ TimerHalfCounted
    \/ TimerTc

SpecAlias == InitBus /\ [][NextAlias]_vars

\* high bytes of the count length written while the count registers are read:
\* two modes with a short length, and one with all of bits 8-13 of the length
CountModeBytes == {TIMER_MODE_AUTO_RELOAD, TIMER_MODE_TC_PULSE}
CountLongBytes == {TIMER_MODE_AUTO_RELOAD + 63}
CountRegisters == {REGISTER_TIMER_LOW, REGISTER_TIMER_HIGH}

\* the count length registers written and read back while the timer runs and
\* while it is stopped.  A count of a length up to MaxLen is followed tick by
\* tick, a longer one from event to event.
NextCount ==
    \/ DeviceReset
    \/ IoW(REGISTER_COMMAND, COMMAND_TM_START)
    \/ IoW(REGISTER_COMMAND, COMMAND_TM_STOP)
    \/ \E d \in CountLowBytes : IoW(REGISTER_TIMER_LOW, d)
    \/ \E d \in CountModeBytes \cup CountLongBytes : IoW(REGISTER_TIMER_HIGH, d)
    \/ \E r \in CountRegisters : IoR(r, FALSE, 0)
    \/ (running(m_timer) => And(m_count_loaded, 16383) <= MaxLen) /\ Tick
    \/ (running(m_timer) /\ And(m_count_loaded, 16383) > MaxLen) /\ Elapse
    \/ TimerHalfCounted
    \/ TimerTc

SpecCount == InitRegs /\ [][NextCount]_vars

\* count lengths at both ends of the 14-bit range, even and odd: the low byte
\* and, in the high byte, bits 8-13 all clear or all set, with a mode
HalfLowBytes == {2, 3, 254, 255}
HalfHighBytes == {0, TIMER_MODE_TC_PULSE, TIMER_MODE_AUTO_RELOAD + 63,
                  TIMER_MODE_TC_PULSE + TIMER_MODE_AUTO_RELOAD + 63}

\* counts of any length run from event to event
NextHalves ==
    \/ DeviceReset
    \/ IoW(REGISTER_COMMAND, COMMAND_TM_START)
    \/ IoW(REGISTER_COMMAND, COMMAND_TM_STOP)
    \/ \E d \in HalfLowBytes : IoW(REGISTER_TIMER_LOW, d)
    \/ \E d \in HalfHighBytes : IoW(REGISTER_TIMER_HIGH, d)
    \/ Elapse
    \/ TimerHalfCounted
    \/ TimerTc

SpecHalves == InitRegs /\ [][NextHalves]_vars

\* ------------------------------------------------------------------------
\* Properties
\* ------------------------------------------------------------------------
\* the 14-bit length and the mode bits of a count register value
LengthOf(count) == And(count, 16383)
ModeOf(count) == And(count \div 256, TIMER_MODE_MASK)
TimerCommand(command) == And(command, COMMAND_TM_MASK)

\* C1: square wave.  After a Start from stopped with length L >= 2 and mode
\* AUTO_RELOAD only, and as long as no Stop, no stop-after-TC, no change of the
\* count length register and no reset occurs (clk >= 0), at every tick t after
\* the Start the timer runs, TO is high for t mod L < ceil(L/2) and low for the
\* rest of the period, and TO has fallen once per period: at ceil(L/2),
\* L + ceil(L/2), ...
C1_SquareWave ==
    LET L == LengthOf(m_count_length)
    IN  (clk >= 0 /\ Quiet /\ L >= 2 /\ ModeOf(m_count_length) = TIMER_MODE_AUTO_RELOAD)
        => /\ running(m_timer)
           /\ m_to = (IF clk % L < (L + 1) \div 2 THEN 1 ELSE 0)
           /\ lows = (clk + (L \div 2)) \div L

\* the low half of the second period of an odd length
C1_Witness ==
    /\ clk >= 0 /\ Quiet
    /\ ModeOf(m_count_length) = TIMER_MODE_AUTO_RELOAD
    /\ LengthOf(m_count_length) = 3
    /\ clk = 5 /\ m_to = 0 /\ lows = 2

\* C2: single pulse.  After a Start from stopped with length L >= 2 and mode
\* TC_PULSE only (no Stop, stop-after-TC, reprogramming or reset since), TO is
\* high and has not fallen before tick L - 1; at tick L - 1 TO is low, having
\* fallen once, and status bit 6 is set unless it was read; from tick L on the
\* timer is stopped, no event is pending, TO is high and has fallen once only.
C2_SinglePulse ==
    LET L == LengthOf(m_count_length)
    IN  (clk >= 0 /\ Quiet /\ L >= 2 /\ ModeOf(m_count_length) = TIMER_MODE_TC_PULSE)
        => /\ clk < L - 1 => (running(m_timer) /\ m_to = 1 /\ lows = 0)
           /\ clk = L - 1 => /\ running(m_timer) /\ m_to = 0 /\ lows = 1
                             /\ ~statusRead => And(m_status, STATUS_TIMER) # 0
           /\ clk >= L => /\ ~running(m_timer) /\ m_timer_tc = Never
                          /\ m_to = 1 /\ lows = 1 /\ tcs = 1
                          /\ ~statusRead => And(m_status, STATUS_TIMER) # 0

\* the timer has halted after its single pulse
C2_Witness ==
    /\ clk > LengthOf(m_count_length) /\ Quiet
    /\ ModeOf(m_count_length) = TIMER_MODE_TC_PULSE
    /\ LengthOf(m_count_length) = 4
    /\ lows = 1 /\ ~running(m_timer) /\ m_status = STATUS_TIMER

\* the timer left to itself for n ticks from device state s: the TO level and
\* whether the count runs, at each tick
RECURSIVE Waveform(_, _)
Waveform(s, n) ==
    IF s.timer = 0
    THEN LET h == timer_half_counted([s EXCEPT !.timer = Never])
         IN  Waveform([h EXCEPT !.cb = <<>>], n)
    ELSE IF s.timer_tc = 0
    THEN Waveform([timer_tc(s) EXCEPT !.timer_tc = Never, !.cb = <<>>], n)
    ELSE IF n = 0 THEN <<>>
    ELSE <<<<s.to, running(s.timer)>>>>
         \o Waveform([s EXCEPT !.timer = IF running(@) THEN @ - 1 ELSE @,
                               !.timer_tc = IF running(@) THEN @ - 1 ELSE @], n - 1)

\* how far ahead the waveforms of two states are compared
Horizon == 2 * MaxLen + 1

\* C3 (as claimed): a Start written while the timer runs makes the timer begin
\* a new count with the programmed length and mode (length >= 2) when the
\* present terminal count is reached, whatever the loaded mode.
C3_DeferredStartBeginsNewCount ==
    (startDeferred = "due" /\ LengthOf(m_count_length) >= 2)
    => /\ running(m_timer)
       /\ m_count_loaded = m_count_length
       /\ ~m_count_even_phase

\* C4: a Start written while the timer runs changes neither count_loaded, the
\* even-phase flag, TO nor the deadline of either event.
C4_StartWhileRunningFrame ==
    [][(op'.name = "write_command"
        /\ TimerCommand(m_command') = COMMAND_TM_START
        /\ running(m_timer))
       => UNCHANGED <<m_count_loaded, m_count_even_phase, m_to, m_timer, m_timer_tc>>]_vars

\* a Start with new parameters has been written in the even half of a count
C4_Witness ==
    /\ startDeferred = "pending"
    /\ op.name = "write_command"
    /\ m_count_length # m_count_loaded
    /\ m_count_even_phase
    /\ m_to = 0

\* C5: a stop-after-TC command written while the timer runs with AUTO_RELOAD
\* changes neither TO nor an event deadline; when terminal count is then
\* reached with that command still in the command register the timer stops
\* with TO high and no event pending; written while stopped, the timer stays
\* stopped.
C5_StopAfterTc ==
    [][/\ (op'.name = "write_command"
           /\ TimerCommand(m_command') = COMMAND_TM_STOP_AFTER_TC
           /\ running(m_timer)
           /\ And(ModeOf(m_count_loaded), TIMER_MODE_AUTO_RELOAD) # 0)
          => UNCHANGED <<m_to, m_timer, m_timer_tc>>
       /\ (op'.name = "timer_half_counted"
           /\ m_count_even_phase
           /\ TimerCommand(m_command) = COMMAND_TM_STOP_AFTER_TC)
          => (~running(m_timer') /\ m_timer_tc' = Never /\ m_to' = 1)
       /\ (op'.name = "write_command"
           /\ TimerCommand(m_command') = COMMAND_TM_STOP_AFTER_TC
           /\ ~running(m_timer))
          => ~running(m_timer')]_vars

\* an auto-reload count has stopped at terminal count on a stop-after-TC
C5_Witness ==
    /\ op.name = "timer_half_counted"
    /\ TimerCommand(m_command) = COMMAND_TM_STOP_AFTER_TC
    /\ And(ModeOf(m_count_loaded), TIMER_MODE_AUTO_RELOAD) # 0
    /\ ~running(m_timer)
    /\ m_to = 1

\* C6 (as claimed): a command write with timer field 00 leaves the future TO
\* levels and the moment the timer stops as they were before the write.
C6_NopKeepsWaveform ==
    [][(op'.name = "write_command" /\ TimerCommand(m_command') = COMMAND_TM_NOP)
       => Waveform(Dev', Horizon) = Waveform(Dev, Horizon)]_vars

\* C7 (as claimed): once terminal count has been reached and the status
\* register has not been read since the Start, status bit 6 is set.
C7_FlagSetAtTerminalCount ==
    (clk >= 0 /\ tcs >= 1 /\ ~statusRead) => And(m_status, STATUS_TIMER) # 0

\* C8: with a programmed 14-bit length of 0 or 1, a Start written while the
\* timer is stopped leaves it stopped: no event pending, TO high before and
\* after, no TO callback.
C8_DegenerateLength ==
    [][(op'.name = "write_command"
        /\ TimerCommand(m_command') = COMMAND_TM_START
        /\ ~running(m_timer)
        /\ LengthOf(m_count_length) < 2)
       => /\ ~running(m_timer') /\ m_timer_tc' = Never
          /\ m_to = 1 /\ m_to' = 1
          /\ \A i \in DOMAIN cb' : cb'[i][1] # "to"]_vars

\* a Start has been written with length 1 and a mode programmed
C8_Witness ==
    /\ op.name = "write_command" /\ ~op.running
    /\ TimerCommand(m_command) = COMMAND_TM_START
    /\ LengthOf(m_count_length) = 1
    /\ ModeOf(m_count_length) = TIMER_MODE_AUTO_RELOAD
    /\ ~running(m_timer) /\ clk = 0

\* C9: after a Stop command neither event is pending and TO is high; if the
\* timer was running, count_loaded holds the loaded mode bits and the live
\* count (what get_timer_count gives at the time of the write, on or after a
\* clock edge).
C9_Stop ==
    [][(op'.name = "write_command" /\ TimerCommand(m_command') = COMMAND_TM_STOP)
       => /\ ~running(m_timer') /\ m_timer_tc' = Never /\ m_to' = 1
          /\ running(m_timer)
             => \E part \in SubTick :
                   m_count_loaded' = Or(And(m_count_loaded, TIMER_MODE_MASK * 256),
                                        get_timer_count(DevAt(part)))]_vars

\* a Stop has been written in the low half of a running count
C9_Witness ==
    /\ op.name = "write_command" /\ op.running
    /\ TimerCommand(m_command) = COMMAND_TM_STOP
    /\ ~running(m_timer)
    /\ m_count_even_phase
    /\ LengthOf(m_count_loaded) = 2
    /\ LengthOf(m_count_length) = 4

\* the timer state a Stop must leave alone when the timer is already stopped
timerState == <<m_count_loaded, m_count_even_phase, m_to, m_status, m_timer, m_timer_tc>>

\* C10 (as claimed): a Stop command written when the timer is already stopped
\* (a repeated Stop byte included) invokes no callback at all and leaves the
\* timer state unchanged.
C10_StopWhenStoppedNoCallback ==
    [][(op'.name = "write_command"
        /\ TimerCommand(m_command') = COMMAND_TM_STOP
        /\ ~running(m_timer))
       => (cb' = <<>> /\ UNCHANGED timerState)]_vars

\* C10 (amended): a Stop command written when the timer is already stopped
\* invokes no TO callback and leaves the timer state unchanged; it invokes a
\* port output callback only for a port whose direction bit it switches from
\* input to output, and none when it repeats the previous command byte.
C10_StopWhenStopped ==
    [][(op'.name = "write_command"
        /\ TimerCommand(m_command') = COMMAND_TM_STOP
        /\ ~running(m_timer))
       => /\ UNCHANGED timerState
          /\ \A i \in DOMAIN cb' :
                \/ /\ cb'[i][1] = "out_pa"
                   /\ And(m_command, COMMAND_PA) = 0 /\ And(m_command', COMMAND_PA) # 0
                \/ /\ cb'[i][1] = "out_pb"
                   /\ And(m_command, COMMAND_PB) = 0 /\ And(m_command', COMMAND_PB) # 0
                \/ /\ cb'[i][1] = "out_pc"
                   /\ And(m_command, COMMAND_PC_MASK) # COMMAND_PC_ALT_2
                   /\ And(m_command', COMMAND_PC_MASK) = COMMAND_PC_ALT_2
          /\ m_command' = m_command => cb' = <<>>]_vars

\* the same Stop byte has been written a second time in a row
C10_Witness ==
    /\ op.name = "write_command" /\ op.repeat /\ ~op.running
    /\ TimerCommand(m_command) = COMMAND_TM_STOP
    /\ And(m_command, COMMAND_PA) # 0
    /\ cb = <<>>

\* the TO level after the callbacks of one operation, starting from `level`;
\* -1 if a TO callback carries the level TO already had
RECURSIVE ToChain(_, _)
ToChain(level, log) ==
    IF log = <<>> THEN level
    ELSE IF Head(log)[1] # "to" THEN ToChain(level, Tail(log))
    ELSE IF Head(log)[2] = level THEN -1
    ELSE ToChain(Head(log)[2], Tail(log))

\* C11: the TO callback is invoked only when the level changes.  In every
\* operation each TO callback carries a level different from the level TO had
\* just before it, and the level TO has after the operation is the level of
\* the last TO callback (the level it had before, if there was none): any two
\* consecutive TO callbacks, in one operation or in different ones, carry
\* different levels.
C11_ToOnlyOnChange ==
    [][ToChain(m_to, cb') = m_to']_vars

\* terminal count of an auto-reload count: timer_half_counted drives TO high
\* and timer_reload_count drives it high again, with one callback
C11_Witness ==
    /\ op.name = "timer_half_counted"
    /\ running(m_timer) /\ ~m_count_even_phase
    /\ cb = <<<<"to", 1>>>>
    /\ m_to = 1

\* bit n of a byte
Bit(x, n) == (x \div (2 ^ n)) % 2

\* C12: when status bit 6 is set, a normal read of register 0 returns a value
\* with bit 6 set and leaves bit 6 clear; a read of register 0 with side
\* effects disabled returns a value with bit 6 set and leaves the status
\* register unchanged.
C12_StatusClearOnRead ==
    [][/\ (op'.name = "read_status" /\ Bit(m_status, 6) = 1)
          => (Bit(ret', 6) = 1 /\ Bit(m_status', 6) = 0)
       /\ (op'.name = "peek_status" /\ Bit(m_status, 6) = 1)
          => (Bit(ret', 6) = 1 /\ m_status' = m_status)]_vars

\* the flag raised by a terminal count has been read with side effects
\* disabled and is still set
C12_Witness ==
    /\ op.name = "peek_status"
    /\ ret = STATUS_TIMER
    /\ m_status = STATUS_TIMER
    /\ ~running(m_timer)

\* C13: RAM round trip.  A read through the bus at a RAM address latched in
\* RAM mode returns the byte last written to that address, whatever I/O-mode
\* transfers, timer events and resets happened since the write.
C13_RamRoundTrip ==
    (op.name = "memory_r" /\ arg.offset \in DOMAIN written)
    => ret = written[arg.offset]

\* the highest address has been read back after the command register, which
\* shares the low address bits of the lowest RAM address, was written and the
\* count it started has ended
C13_Witness ==
    /\ op.name = "memory_r" /\ m_io_m = MEMORY /\ m_ad = 255
    /\ ret = 90
    /\ 0 \in DOMAIN written /\ written[0] = 165
    /\ m_command = COMMAND_TM_START
    /\ m_status = STATUS_TIMER

\* C14: after a device reset, from whatever state, ports A, B and C are in
\* input mode (command bits 0-3 are 0), status bit 6 is clear, the half-period
\* event and the terminal-count event are both disabled, and TO is high.
C14_Reset ==
    op.name = "device_reset"
    => /\ m_command % 16 = 0
       /\ get_port_mode(Dev, PORT_A) = PORT_MODE_INPUT
       /\ get_port_mode(Dev, PORT_B) = PORT_MODE_INPUT
       /\ get_port_mode(Dev, PORT_C) = PORT_MODE_INPUT
       /\ Bit(m_status, 6) = 0
       /\ m_timer = Never /\ m_timer_tc = Never
       /\ m_to = 1

\* a reset during the pulse of a count started with port C as output: TO was
\* low, and the command register keeps its Start
C14_Witness ==
    /\ op.name = "device_reset"
    /\ m_command = COMMAND_TM_START
    /\ cb = <<<<"to", 1>>>>
    /\ ~running(m_timer)

\* the invocations of one callback among the callbacks of an operation
Calls(log, name) == SelectSeq(log, LAMBDA e : e[1] = name)

\* C15: a command write that switches port A from input to output (bit 0 goes
\* from 0 to 1) invokes the port A output callback exactly once, with the
\* content of the port A output latch; a command write that does not make
\* bit 0 go from 0 to 1 does not invoke it.  The same for port B and bit 1.
C15_DirectionFlush ==
    [][op'.name = "write_command"
       => /\ Calls(cb', "out_pa") =
                 (IF Bit(m_command, 0) = 0 /\ Bit(arg'.data, 0) = 1
                  THEN <<<<"out_pa", m_output[PORT_A + 1]>>>> ELSE <<>>)
          /\ Calls(cb', "out_pb") =
                 (IF Bit(m_command, 1) = 0 /\ Bit(arg'.data, 1) = 1
                  THEN <<<<"out_pb", m_output[PORT_B + 1]>>>> ELSE <<>>)]_vars

\* port A alone has been switched to output with a byte waiting in its latch
C15_Witness ==
    /\ op.name = "write_command"
    /\ arg.data = COMMAND_PA
    /\ m_output = <<255, 255, 63>>
    /\ cb = <<<<"out_pa", 255>>>>

\* the port a port register index stands for
PortOf(offset) == (offset % 8) - 1

\* C16: a write to port register 1, 2 or 3 stores the byte (of port C its low
\* 6 bits) in that port's output latch whatever the port's mode, and invokes
\* that port's output callback exactly once, with the stored byte, if and only
\* if the port is in output mode at the time of the write, also when the byte
\* equals what the latch held.
C16_PortWrite ==
    [][op'.name = "write_port"
       => LET port == PortOf(arg'.offset)
              stored == IF port = PORT_C THEN arg'.data % 64 ELSE arg'.data
          IN  /\ m_output'[port + 1] = stored
              /\ cb' = (IF get_port_mode(Dev, port) = PORT_MODE_OUTPUT
                        THEN <<<<"out_" \o PortName(port), stored>>>> ELSE <<>>)]_vars

\* port C, an output, has been written a byte with bits 6 and 7 set
C16_Witness ==
    /\ op.name = "write_port"
    /\ arg = [offset |-> REGISTER_PORT_C, data |-> 255]
    /\ m_output[PORT_C + 1] = 63
    /\ cb = <<<<"out_pc", 63>>>>
    /\ get_port_mode(Dev, PORT_C) = PORT_MODE_OUTPUT

\* C17: reading a port in input mode invokes that port's input callback and
\* returns what the callback returns; reading a port in output mode returns the
\* content of that port's output latch and invokes no input callback.  The
\* value read_port returns is what a read of register 1 or 2 returns, and what
\* a read of register 3 returns in its low 6 bits, over bits 6 and 7 set.
C17_PortRead ==
    [][(op'.name = "read_io" /\ arg'.offset % 8 \in PortRegisters)
       => LET port == PortOf(arg'.offset)
              pin == arg'.data
              r == read_port(Dev, port, pin)
          IN  /\ get_port_mode(Dev, port) = PORT_MODE_INPUT
                 => /\ r.data = pin
                    /\ cb' = <<<<"in_" \o PortName(port), pin>>>>
              /\ get_port_mode(Dev, port) = PORT_MODE_OUTPUT
                 => /\ r.data = m_output[port + 1]
                    /\ cb' = <<>>
              /\ cb' = r.dev.cb
              /\ ret' = (IF port = PORT_C THEN 192 + (r.data % 64) ELSE r.data)]_vars

\* port B, an output, has been read while its pins offered another byte
C17_Witness ==
    /\ op.name = "read_io"
    /\ arg = [offset |-> REGISTER_PORT_B, data |-> 60]
    /\ get_port_mode(Dev, PORT_B) = PORT_MODE_OUTPUT
    /\ ret = 255
    /\ cb = <<>>

\* port C is in one of the two strobed modes, which read_port does not implement
PortCStrobed ==
    get_port_mode(Dev, PORT_C) \in {PORT_MODE_STROBED_PORT_A, PORT_MODE_STROBED}

\* C18 (as claimed): a read of the port C register (index 3) while command
\* bits 2-3 select one of the strobed modes yields 0.
C18_StrobedReadYieldsZero ==
    (op.name = "read_io" /\ arg.offset % 8 = REGISTER_PORT_C /\ PortCStrobed)
    => ret = 0

\* C18 (amended): a read of the port C register (index 3) while command bits
\* 2-3 select one of the strobed modes invokes no input callback and yields
\* 192: the 0 that read_port yields, with bits 6 and 7 set.
C18_StrobedRead ==
    (op.name = "read_io" /\ arg.offset % 8 = REGISTER_PORT_C /\ PortCStrobed)
    => (ret = 192 /\ cb = <<>> /\ read_port(Dev, PORT_C, arg.data).data = 0)

\* the port C register has been read in the strobed mode of both ports
C18_Witness ==
    /\ op.name = "read_io"
    /\ arg = [offset |-> REGISTER_PORT_C, data |-> 60]
    /\ get_port_mode(Dev, PORT_C) = PORT_MODE_STROBED
    /\ ret = 192
    /\ cb = <<>>

\* C19: every read of register 3 returns a byte with bits 6 and 7 set, in
\* every mode of port C, and after a write of v to register 3 the port C
\* output latch holds v AND 0x3F.
C19_PortCRegister ==
    /\ (op.name = "read_io" /\ arg.offset % 8 = REGISTER_PORT_C)
       => (Bit(ret, 6) = 1 /\ Bit(ret, 7) = 1)
    /\ (op.name = "write_port" /\ arg.offset % 8 = REGISTER_PORT_C)
       => m_output[PORT_C + 1] = arg.data % 64

\* port C, an input, has been read with bits 6 and 7 clear on its pins, after
\* a byte with those bits set was written to its register
C19_Witness ==
    /\ op.name = "read_io"
    /\ arg = [offset |-> REGISTER_PORT_C, data |-> 60]
    /\ get_port_mode(Dev, PORT_C) = PORT_MODE_INPUT
    /\ ret = 252
    /\ m_output[PORT_C + 1] = 63

\* the members of a device record, in the order of devVars
Members(n) ==
    <<n.io_m, n.ad, n.command, n.status, n.output, n.ram, n.count_length,
      n.count_loaded, n.to, n.count_even_phase, n.timer, n.timer_tc>>

\* C20: in I/O mode only the low 3 bits of the latched address select the
\* register.  A data write at latched address a leaves the device in the state
\* and invokes the callbacks of a register write at a AND 0x07, and a data
\* read at a returns the byte, leaves the state and invokes the callbacks of a
\* register read at a AND 0x07 (at the same moment of the clock tick).
C20_AddressAliasing ==
    [][/\ (m_io_m = IO /\ op'.name \in {"write_command", "write_count",
                                        "write_port", "write_none"})
          => \E part \in Parts :
                LET n == io_w(DevAt(part), m_ad % 8, arg'.data)
                IN  devVars' = Members(n) /\ cb' = n.cb
       /\ (m_io_m = IO /\ op'.name \in {"read_status", "read_io"})
          => \E part \in Parts :
                LET r == io_r(DevAt(part), m_ad % 8, FALSE, arg'.data)
                IN  ret' = r.data /\ devVars' = Members(r.dev) /\ cb' = r.dev.cb]_vars

\* port A, an output, has been written at latched address 9
C20_Witness ==
    /\ op.name = "write_port"
    /\ m_io_m = IO /\ m_ad = 8 + REGISTER_PORT_A
    /\ arg = [offset |-> 8 + REGISTER_PORT_A, data |-> 255]
    /\ m_output[PORT_A + 1] = 255
    /\ cb = <<<<"out_pa", 255>>>>

\* C21: single square wave.  After a Start from stopped with length L >= 2
\* and mode bits 00 (no Stop, stop-after-TC, reprogramming or reset since), TO
\* is high and has not fallen before tick ceil(L/2); from tick ceil(L/2) to
\* tick L it is low, having fallen once; from tick L on the timer is stopped,
\* no event is pending and TO is high, having fallen that once only: the count
\* is not reloaded.
C21_SingleSquareWave ==
    LET L == LengthOf(m_count_length)
    IN  (clk >= 0 /\ Quiet /\ L >= 2 /\ ModeOf(m_count_length) = 0)
        => /\ clk < (L + 1) \div 2 => (running(m_timer) /\ m_to = 1 /\ lows = 0)
           /\ (clk >= (L + 1) \div 2 /\ clk < L)
              => (running(m_timer) /\ m_to = 0 /\ lows = 1 /\ tcs = 0)
           /\ clk >= L => /\ ~running(m_timer) /\ m_timer_tc = Never
                          /\ m_to = 1 /\ lows = 1 /\ tcs = 1

\* a count of odd length has ended and stayed stopped for a period more
C21_Witness ==
    /\ clk = 2 * LengthOf(m_count_length) /\ Quiet
    /\ ModeOf(m_count_length) = 0
    /\ LengthOf(m_count_length) = 3
    /\ ~running(m_timer) /\ m_to = 1 /\ lows = 1

\* C22: repeated pulse.  After a Start from stopped with length L >= 2 and
\* mode TC_PULSE|AUTO_RELOAD (no Stop, stop-after-TC, reprogramming or reset
\* since) the timer runs on; TO is low during the last tick of every period
\* and high during the rest of it, the whole odd half included; it has fallen
\* once per period, and the terminal-count event of every period leaves status
\* bit 6 set.
C22_RepeatedPulse ==
    LET L == LengthOf(m_count_length)
    IN  (clk >= 0 /\ Quiet /\ L >= 2
         /\ ModeOf(m_count_length) = TIMER_MODE_TC_PULSE + TIMER_MODE_AUTO_RELOAD)
        => /\ running(m_timer)
           /\ m_to = (IF clk % L = L - 1 THEN 0 ELSE 1)
           /\ ~m_count_even_phase => m_to = 1
           /\ lows = (clk + 1) \div L
           /\ tcs = clk \div L
           /\ op.name = "timer_tc" => Bit(m_status, 6) = 1

\* the pulse of the second period, after the flag of the first was read
C22_Witness ==
    /\ clk = 5 /\ Quiet
    /\ ModeOf(m_count_length) = TIMER_MODE_TC_PULSE + TIMER_MODE_AUTO_RELOAD
    /\ LengthOf(m_count_length) = 3
    /\ op.name = "timer_tc"
    /\ statusRead /\ m_status = STATUS_TIMER
    /\ m_to = 0 /\ lows = 2

\* the 14-bit count that registers 4 and 5 return when both are read at the
\* same moment of a clock tick
LiveCountOf(s) ==
    io_r(s, REGISTER_TIMER_LOW, FALSE, 0).data
    + 256 * (io_r(s, REGISTER_TIMER_HIGH, FALSE, 0).data % 64)

LiveCount(part) == LiveCountOf(DevAt(part))

\* a read of a count register returned what LiveCount gives for that register
ReadOfLiveCount ==
    (op.name = "read_io" /\ arg.offset % 8 \in CountRegisters)
    => \E part \in Parts :
          ret % (IF arg.offset % 8 = REGISTER_TIMER_LOW THEN 256 ELSE 64)
          = (IF arg.offset % 8 = REGISTER_TIMER_LOW
             THEN LiveCount(part) % 256 ELSE LiveCount(part) \div 256)

\* C23 (as claimed): while the timer runs, the 14-bit live count read from
\* registers 4 and 5 never exceeds the 14-bit length loaded for the current
\* period.
C23_LiveCountWithinLength ==
    (Quiet /\ running(m_timer))
    => /\ ReadOfLiveCount
       /\ \A part \in SubTick : LiveCount(part) <= LengthOf(m_count_loaded)

\* C23 (amended): while the timer runs, the 14-bit live count read from
\* registers 4 and 5 never exceeds the loaded length with bit 0 cleared in the
\* even half, and that value plus one in the odd half: at most the loaded
\* length L when L is odd, at most L + 1 when L is even.
C23_LiveCountBound ==
    (Quiet /\ running(m_timer))
    => LET L == LengthOf(m_count_loaded)
       IN  /\ ReadOfLiveCount
           /\ \A part \in SubTick :
                 /\ m_count_even_phase => LiveCount(part) <= L - (L % 2)
                 /\ ~m_count_even_phase => LiveCount(part) <= L - (L % 2) + 1

\* register 4 has been read right after the Start of a count of even length
C23_Witness ==
    /\ op.name = "read_io" /\ arg.offset = REGISTER_TIMER_LOW
    /\ running(m_timer) /\ ~m_count_even_phase
    /\ LengthOf(m_count_loaded) = 4
    /\ ret = 5
    /\ clk = 0

\* C24: while the timer is not running, register 4 reads the low byte of the
\* programmed count_length, and register 5 reads bits 8-13 of the programmed
\* count_length over the mode bits of count_loaded: mode bits written to
\* register 5 are not read back before a reload.
C24_StoppedCountRegisters ==
    (op.name = "read_io" /\ ~running(m_timer))
    => /\ arg.offset % 8 = REGISTER_TIMER_LOW => ret = m_count_length % 256
       /\ arg.offset % 8 = REGISTER_TIMER_HIGH
          => ret = ((m_count_length \div 256) % 64)
                   + 64 * (m_count_loaded \div 16384)

\* register 5 has been read with the timer stopped, after a length with bits
\* 8-13 set and another mode than the loaded one was written to it
C24_Witness ==
    /\ op.name = "read_io" /\ arg.offset = REGISTER_TIMER_HIGH
    /\ ~running(m_timer)
    /\ m_count_length \div 256 = TIMER_MODE_AUTO_RELOAD + 63
    /\ ModeOf(m_count_loaded) = TIMER_MODE_TC_PULSE
    /\ ret = TIMER_MODE_TC_PULSE + 63

\* C25: at every terminal count (the even half has elapsed) the timer stops
\* if the loaded mode lacks AUTO_RELOAD or the timer field of the command
\* register is stop-after-TC at that moment.  Otherwise it reloads from the
\* count_length programmed at that moment: with a programmed length L >= 2 the
\* loaded count becomes the programmed one, length and mode, and its odd half
\* begins, and if the programmed mode lacks AUTO_RELOAD the timer, left alone,
\* runs for exactly L more ticks; with a programmed length below 2 the reload
\* leaves the timer stopped.
C25_TerminalCount ==
    [][(op'.name = "timer_half_counted" /\ m_count_even_phase)
       => LET L == LengthOf(m_count_length)
          IN  IF And(ModeOf(m_count_loaded), TIMER_MODE_AUTO_RELOAD) = 0
                 \/ TimerCommand(m_command) = COMMAND_TM_STOP_AFTER_TC
              THEN ~running(m_timer') /\ m_timer_tc' = Never /\ m_to' = 1
              ELSE /\ L < 2 => ~running(m_timer')
                   /\ L >= 2
                      => /\ m_count_loaded' = m_count_length
                         /\ running(m_timer') /\ ~m_count_even_phase'
                         /\ m_timer' = (L + 1) \div 2
                         /\ And(ModeOf(m_count_length), TIMER_MODE_AUTO_RELOAD) = 0
                            => \A i \in 1 .. Horizon :
                                  Waveform(Dev', Horizon)[i][2] = (i - 1 < L)]_vars

\* an auto-reload count has reloaded a length and a mode without AUTO_RELOAD
\* that were written during its period
C25_Witness ==
    /\ op.name = "timer_half_counted"
    /\ running(m_timer) /\ ~m_count_even_phase
    /\ m_count_loaded = m_count_length
    /\ ModeOf(m_count_loaded) = TIMER_MODE_TC_PULSE
    /\ LengthOf(m_count_loaded) = 3
    /\ m_timer = 2
    /\ clk = -1

\* C26: for every loaded length L from 2 to 0x3FFF the odd half, which begins
\* with a Start from stopped or with a reload at terminal count, lasts
\* ceil(L/2) ticks and the even half lasts floor(L/2) ticks: the end of the
\* odd half of the first count after a Start comes ceil(L/2) ticks after the
\* Start and its terminal count exactly L ticks after the Start.
C26_HalfLengths ==
    [][/\ (/\ running(m_timer') /\ ~m_count_even_phase'
           /\ \/ op'.name = "write_command" /\ ~running(m_timer)
              \/ op'.name = "timer_half_counted" /\ m_count_even_phase)
          => /\ LengthOf(m_count_loaded') >= 2
             /\ m_timer' = (LengthOf(m_count_loaded') + 1) \div 2
       /\ (op'.name = "timer_half_counted" /\ ~m_count_even_phase)
          => /\ m_count_even_phase'
             /\ m_timer' = LengthOf(m_count_loaded) \div 2
             /\ (clk' >= 0 /\ tcs' = 0)
                => clk' = (LengthOf(m_count_loaded) + 1) \div 2
       /\ (op'.name = "timer_half_counted" /\ m_count_even_phase
           /\ clk' >= 0 /\ tcs' = 1)
          => clk' = LengthOf(m_count_loaded)]_vars

\* the terminal count of the longest count, 0x3FFF ticks after its Start
C26_Witness ==
    /\ op.name = "timer_half_counted"
    /\ LengthOf(m_count_length) = MaxCount
    /\ clk = MaxCount /\ tcs = 1
    /\ running(m_timer) /\ ~m_count_even_phase
    /\ m_timer = 8192

\* TC_PULSE is among the mode bits of the loaded count
TcPulseLoaded == And(ModeOf(m_count_loaded), TIMER_MODE_TC_PULSE) # 0

\* C27: in the TC_PULSE modes, for every loaded length L >= 2, the
\* terminal-count event is scheduled one tick before the end of the even half
\* (for L = 2 and 3 at once, the even half being one tick long); when it fires
\* it drives TO low with exactly one tick of the even half left, and the end
\* of the even half, which comes after it, drives TO high again.
C27_TerminalCountPulse ==
    [][/\ (op'.name = "timer_half_counted" /\ ~m_count_even_phase /\ TcPulseLoaded)
          => /\ running(m_timer_tc') /\ running(m_timer')
             /\ m_timer_tc' = m_timer' - 1
             /\ LengthOf(m_count_loaded) \in {2, 3} => m_timer_tc' = 0
             /\ m_to' = 1
       /\ op'.name = "timer_tc"
          => /\ TcPulseLoaded /\ m_count_even_phase
             /\ m_timer' = 1 /\ m_timer_tc' = Never
             /\ m_to = 1 /\ m_to' = 0
       /\ (op'.name = "timer_half_counted" /\ m_count_even_phase /\ TcPulseLoaded)
          => /\ m_timer_tc = Never
             /\ m_to = 0 /\ m_to' = 1]_vars

\* the pulse of a count of length 0x3F03, one tick before its terminal count
C27_Witness ==
    /\ op.name = "timer_tc"
    /\ LengthOf(m_count_loaded) = 16131
    /\ m_to = 0 /\ m_timer = 1
    /\ clk = 16130

\* the live count the source's formula gives with r whole clocks remaining in
\* the current half of a count of 14-bit length L
CountOfRemaining(r, L, even) ==
    Min(2 * (r + 1), L - (L % 2)) + (IF even THEN 0 ELSE 1)

\* the device one clock later in the same half: Tick changes the remaining
\* time of the running timers and nothing else of the device
OneClockLater(s) == [s EXCEPT !.timer = @ - 1]

\* C28: with r whole clocks remaining in the current half of a running count
\* of 14-bit loaded length L, the live count read from registers 4 and 5 is
\* min(2 * (r + 1), L with bit 0 cleared), with bit 0 set in the odd half and
\* clear in the even half; within one half the live count never increases as
\* time passes (from a clock edge to a read after it, and from there to the
\* next clock edge of the half).
C28_LiveCountFormula ==
    (Quiet /\ running(m_timer))
    => /\ ReadOfLiveCount
       /\ \A part \in SubTick :
             /\ LiveCount(part)
                = CountOfRemaining(m_timer - part, LengthOf(m_count_loaded),
                                   m_count_even_phase)
             /\ LiveCount(part) % 2 = (IF m_count_even_phase THEN 0 ELSE 1)
       /\ LiveCount(1) <= LiveCount(0)
       /\ m_timer > 1 => LiveCountOf(OneClockLater(DevAt(0))) <= LiveCount(1)

\* register 4 has been read between two clock edges in the last clock of the
\* even half of a count of length 4, with no whole clock remaining: it read 2
C28_Witness ==
    /\ op.name = "read_io" /\ arg.offset = REGISTER_TIMER_LOW
    /\ running(m_timer) /\ m_count_even_phase
    /\ LengthOf(m_count_loaded) = 4
    /\ m_timer = 1
    /\ ret = 2
    /\ clk = 3

\* a Start command has just been written to the command register while the
\* timer was not running
StartFromStopped ==
    /\ op'.name = "write_command"
    /\ TimerCommand(arg'.data) = COMMAND_TM_START
    /\ ~running(m_timer)

\* C29 (as claimed): a Start command written while the timer is stopped loads
\* count_loaded with the programmed count_length and its mode bits, clears the
\* even-phase flag and starts an odd half of ceil(L/2) ticks, whatever a
\* previous Stop left in count_loaded.
C29_StartRestarts ==
    [][StartFromStopped
       => LET L == LengthOf(m_count_length)
          IN  /\ m_count_loaded' = m_count_length
              /\ ~m_count_even_phase'
              /\ m_timer' = (L + 1) \div 2]_vars

\* C29 (amended): a Start command written while the timer is stopped loads
\* count_loaded with the programmed count_length and its mode bits, whatever
\* a previous Stop left in count_loaded; with a programmed length L of at
\* least 2 it clears the even-phase flag and starts an odd half of ceil(L/2)
\* ticks, with a programmed length below 2 the timer stays stopped and the
\* even-phase flag keeps its value.
C29_StartRestartsValidLength ==
    [][StartFromStopped
       => LET L == LengthOf(m_count_length)
          IN  /\ m_count_loaded' = m_count_length
              /\ L >= 2 => /\ ~m_count_even_phase'
                           /\ m_timer' = (L + 1) \div 2
              /\ L < 2 => /\ ~running(m_timer')
                          /\ m_count_even_phase' = m_count_even_phase]_vars

\* a Start written while the timer was stopped, after an earlier count had
\* reached its terminal count, has begun the odd half of a count of length 3
\* in TC_PULSE mode
C29_Witness ==
    /\ op.name = "write_command" /\ ~op.running
    /\ And(m_status, STATUS_TIMER) # 0
    /\ TimerCommand(arg.data) = COMMAND_TM_START
    /\ m_count_loaded = m_count_length
    /\ LengthOf(m_count_loaded) = 3
    /\ ModeOf(m_count_loaded) = TIMER_MODE_TC_PULSE
    /\ running(m_timer) /\ m_timer = 2 /\ ~m_count_even_phase
    /\ clk = 0

\* a command has just been written that differs from the previous command in
\* bits 2-3 and in no other bit
OnlyPortCModeChanges ==
    /\ op'.name = "write_command"
    /\ m_command' # m_command
    /\ AndNot(m_command', COMMAND_PC_MASK) = AndNot(m_command, COMMAND_PC_MASK)

\* C30 (as claimed): a command write that changes only the port C mode bits
\* (bits 2-3) invokes no port output callback.
C30_PortCModeSilent ==
    [][OnlyPortCModeChanges
       => /\ Calls(cb', "out_pa") = <<>>
          /\ Calls(cb', "out_pb") = <<>>
          /\ Calls(cb', "out_pc") = <<>>]_vars

\* C30 (amended): a command write that changes only the port C mode bits
\* (bits 2-3) invokes neither the port A nor the port B output callback; it
\* invokes the port C output callback, exactly once and with the content of
\* the port C output latch, if and only if it switches port C to its output
\* mode (both bits set), and it leaves the output latches unchanged.
C30_PortCModeFlush ==
    [][OnlyPortCModeChanges
       => /\ Calls(cb', "out_pa") = <<>>
          /\ Calls(cb', "out_pb") = <<>>
          /\ Calls(cb', "out_pc")
             = (IF And(m_command', COMMAND_PC_MASK) = COMMAND_PC_ALT_2
                THEN << <<"out_pc", m_output[PORT_C + 1]>> >>
                ELSE <<>>)
          /\ m_output' = m_output]_vars

\* with ports A and B programmed as outputs all along, a command write has
\* switched port C to its output mode and flushed the port C latch, which
\* held 63, and nothing else: ports A and B were outputs before the write
C30_Witness ==
    /\ op.name = "write_command"
    /\ m_command = COMMAND_PA + COMMAND_PB + COMMAND_PC_ALT_2
    /\ m_output = <<255, 255, 63>>
    /\ cb = << <<"out_pc", 63>> >>

\* C31: in every state reachable after the first device reset, if the
\* half-period timer is not scheduled (the count is stopped) then TO is high
\* and the terminal-count timer is not scheduled either.
C31_StoppedIsIdle ==
    (powered /\ ~running(m_timer))
    => (m_to = 1 /\ ~running(m_timer_tc))

\* a single TC_PULSE count has ended by itself: the end of its even half
\* has driven TO from low to high and left both timers unscheduled
C31_Witness ==
    /\ powered
    /\ op.name = "timer_half_counted"
    /\ ModeOf(m_count_loaded) = TIMER_MODE_TC_PULSE
    /\ cb = << <<"to", 1>> >>
    /\ ~running(m_timer) /\ ~running(m_timer_tc)
    /\ m_to = 1

\* C32: under every interleaving of bus accesses with the two timer
\* callbacks, whenever the terminal-count timer is scheduled the half-period
\* timer is scheduled too, the count is in its even half and the loaded mode
\* has the TC_PULSE bit; and when timer_tc has just run, the half-period
\* timer is scheduled, the count is in its even half and the loaded mode has
\* the TC_PULSE bit: timer_tc runs neither with the count stopped nor in a
\* mode without TC_PULSE.
C32_TcOnlyInPulseEvenHalf ==
    (running(m_timer_tc) \/ op.name = "timer_tc")
    => (running(m_timer) /\ m_count_even_phase /\ TcPulseLoaded)

\* while the terminal-count timer was scheduled, a mode without TC_PULSE has
\* been written to register 5: the loaded mode still has the bit
C32_Witness ==
    /\ op.name = "write_count" /\ arg.offset = REGISTER_TIMER_HIGH
    /\ ModeOf(m_count_length) = 0
    /\ ModeOf(m_count_loaded) = TIMER_MODE_TC_PULSE + TIMER_MODE_AUTO_RELOAD
    /\ running(m_timer_tc) /\ m_timer_tc = 1
    /\ running(m_timer) /\ m_count_even_phase

\* C33: in every reachable state where the half-period timer is scheduled
\* and the loaded mode has no TC_PULSE bit, TO is low if and only if the count
\* is in its even half.
C33_SquareWaveLevel ==
    (running(m_timer) /\ ~TcPulseLoaded)
    => (m_to = 0 <=> m_count_even_phase)

\* the odd half of an auto-reload square wave has ended: TO has been driven
\* low and the even half runs
C33_Witness ==
    /\ op.name = "timer_half_counted"
    /\ cb = << <<"to", 0>> >>
    /\ ModeOf(m_count_loaded) = TIMER_MODE_AUTO_RELOAD
    /\ running(m_timer) /\ m_count_even_phase
    /\ m_to = 0

\* C34: in every reachable state where the half-period timer is scheduled,
\* the 14-bit length held in count_loaded is at least 2; the end of the even
\* half of a count, when the length programmed in registers 4/5 is below 2,
\* leaves the timer stopped, whether it reloads or not.
C34_LoadedLengthValid ==
    [][/\ running(m_timer') => LengthOf(m_count_loaded') >= 2
       /\ (op'.name = "timer_half_counted" /\ m_count_even_phase
           /\ LengthOf(m_count_length) < 2)
          => ~running(m_timer')]_vars

\* an auto-reload count under a Start command has reached its terminal count
\* after the length 1 was written to register 4: the reload has loaded the
\* programmed mode and has stopped the timer
C34_Witness ==
    /\ op.name = "timer_half_counted"
    /\ TimerCommand(m_command) = COMMAND_TM_START
    /\ LengthOf(m_count_length) = 1
    /\ ModeOf(m_count_length) = TIMER_MODE_AUTO_RELOAD
    /\ ModeOf(m_count_loaded) = TIMER_MODE_AUTO_RELOAD
    /\ ~running(m_timer) /\ ~running(m_timer_tc)
    /\ m_to = 1

\* C35: a write to register 4 or 5 while the half-period timer is scheduled
\* replaces the addressed byte of count_length and changes nothing else:
\* count_loaded, the even-phase flag, TO, the status and command registers,
\* the output latches, the RAM, the address latch and the remaining time of
\* both timers are unchanged, and no callback is invoked.
C35_CountWriteFrame ==
    [][(op'.name = "write_count" /\ running(m_timer))
       => /\ m_count_length'
             = (IF arg'.offset % 8 = REGISTER_TIMER_LOW
                THEN (m_count_length \div 256) * 256 + arg'.data
                ELSE arg'.data * 256 + (m_count_length % 256))
          /\ UNCHANGED <<m_count_loaded, m_count_even_phase, m_to, m_status,
                         m_command, m_output, m_ram, m_io_m, m_ad,
                         m_timer, m_timer_tc>>
          /\ cb' = <<>>]_vars

\* the length 1 has been written to register 4 in the last clock of the even
\* half of a count of length 4: the count goes on with the loaded length
C35_Witness ==
    /\ op.name = "write_count"
    /\ arg = [offset |-> REGISTER_TIMER_LOW, data |-> 1]
    /\ LengthOf(m_count_length) = 1
    /\ LengthOf(m_count_loaded) = 4
    /\ running(m_timer) /\ m_timer = 1 /\ m_count_even_phase
    /\ m_to = 0

\* the end of the even half of an auto-reload count that is not under a
\* Stop-after-TC command: timer_half_counted reloads
AutoReloadStep ==
    /\ op'.name = "timer_half_counted"
    /\ m_count_even_phase
    /\ And(ModeOf(m_count_loaded), TIMER_MODE_AUTO_RELOAD) # 0
    /\ TimerCommand(m_command) # COMMAND_TM_STOP_AFTER_TC

\* C36: when a count runs in an auto-reload mode and a new length or mode is
\* written to registers 4/5, no Start command being written afterwards, the
\* next auto-reload at terminal count loads count_loaded with the programmed
\* length and mode, and with a length L of at least 2 it begins the odd half
\* of ceil(L/2) ticks of a count of that length and mode.
C36_ReloadWithoutStart ==
    [][AutoReloadStep
       => LET L == LengthOf(m_count_length)
          IN  /\ L >= 2
                 => /\ m_count_loaded' = m_count_length
                    /\ running(m_timer') /\ ~m_count_even_phase'
                    /\ m_timer' = (L + 1) \div 2
              /\ L < 2 => ~running(m_timer')
              /\ ModeOf(m_count_loaded') = ModeOf(m_count_length)]_vars

\* a reload at terminal count has loaded length 3 and the TC_PULSE
\* auto-reload mode: both were written while the count ran, after the Start
C36_Witness ==
    /\ op.name = "timer_half_counted"
    /\ m_count_loaded = (TIMER_MODE_AUTO_RELOAD + TIMER_MODE_TC_PULSE) * 256 + 3
    /\ m_count_loaded # ReloadBase
    /\ m_count_length = m_count_loaded
    /\ running(m_timer) /\ ~m_count_even_phase
    /\ m_timer = 2

\* the byte that RAM content ram holds at address a
RamByte(ram, a) == IF a \in DOMAIN ram THEN ram[a] ELSE 0

\* the registers, the address latch, TO and both timers keep their values
\* and no callback is invoked
RegistersUntouched ==
    /\ UNCHANGED <<m_io_m, m_ad, m_command, m_status, m_output, m_count_length,
                   m_count_loaded, m_to, m_count_even_phase, m_timer, m_timer_tc>>
    /\ cb' = <<>>

\* C37: a data transfer in RAM mode changes no register, no timer state and
\* no scheduled callback and invokes no callback; a RAM write at address a
\* stores the byte at a and changes no other RAM byte, a RAM read changes no
\* RAM byte; a data write in I/O mode and a timer callback change no RAM
\* byte.
C37_RamAndRegistersApart ==
    [][/\ op'.name \in {"memory_w", "memory_r"} => RegistersUntouched
       /\ op'.name = "memory_w"
          => \A a \in 0 .. 255 :
                RamByte(m_ram', a)
                = (IF a = arg'.offset % 256 THEN arg'.data ELSE RamByte(m_ram, a))
       /\ op'.name \in {"memory_r", "write_command", "write_count", "write_port",
                         "write_none", "timer_half_counted", "timer_tc"}
          => m_ram' = m_ram]_vars

\* the highest RAM address has been written in the last clock of a count,
\* after its terminal-count pulse began: the lowest address keeps its byte
\* and the count goes on
C37_Witness ==
    /\ op.name = "memory_w"
    /\ arg = [offset |-> 255, data |-> 90]
    /\ RamByte(m_ram, 255) = 90 /\ RamByte(m_ram, 0) = 165
    /\ running(m_timer) /\ m_timer = 1 /\ m_count_even_phase
    /\ m_to = 0
    /\ m_status = STATUS_TIMER

\* C38: in I/O mode, a data read at a latched address whose low 3 bits are 6
\* or 7 returns 0, and a data read or a data write there changes no member
\* of the device, neither timer, and invokes no callback.
C38_UnusedRegisters ==
    [][(m_io_m = IO /\ m_ad % 8 \in {6, 7}
        /\ op'.name \in {"read_io", "read_status", "write_none", "write_command",
                          "write_count", "write_port"})
       => /\ op'.name \in {"read_io", "write_none"}
          /\ op'.name = "read_io" => ret' = 0
          /\ UNCHANGED devVars
          /\ cb' = <<>>]_vars

\* index 7 has been read at latched address 255, with pins at 60, in the last
\* clock of a count, after its terminal-count pulse began: it read 0
C38_Witness ==
    /\ op.name = "read_io"
    /\ m_io_m = IO /\ m_ad = 255
    /\ arg = [offset |-> 255, data |-> 60]
    /\ ret = 0
    /\ running(m_timer) /\ m_timer = 1 /\ m_count_even_phase
    /\ m_to = 0 /\ m_status = STATUS_TIMER

\* C39: a device reset clears the three port output latches to 0 and
\* invokes no port output callback; it leaves the RAM contents, the
\* programmed count_length, the address latch with its I/O select and
\* command bits 4-7 unchanged; it invokes the TO callback at most once, and
\* only if TO was low, to drive it high.
C39_ResetFrame ==
    [][op'.name = "device_reset"
       => /\ m_output' = <<0, 0, 0>>
          /\ Calls(cb', "out_pa") = <<>>
          /\ Calls(cb', "out_pb") = <<>>
          /\ Calls(cb', "out_pc") = <<>>
          /\ m_ram' = m_ram
          /\ m_count_length' = m_count_length
          /\ m_ad' = m_ad /\ m_io_m' = m_io_m
          /\ m_command' \div 16 = m_command \div 16
          /\ cb' = (IF m_to = 0 THEN << <<"to", 1>> >> ELSE <<>>)]_vars

\* a reset during the pulse of a count, under a stop-after-TC command written
\* with port C strobed, with address 9 latched and RAM byte 9 written: the
\* command keeps its timer field, TO has been driven high once
C39_Witness ==
    /\ op.name = "device_reset"
    /\ m_command = COMMAND_TM_STOP_AFTER_TC
    /\ cb = << <<"to", 1>> >>
    /\ m_output = <<0, 0, 0>>
    /\ m_io_m = IO /\ m_ad = RamAddress
    /\ RamByte(m_ram, RamAddress) = 165
    /\ m_count_length = TIMER_MODE_TC_PULSE * 256 + 2

====
